---- MODULE Spec2Model ----
(***************************************************************************)
(* Verification model of the multimodal search repository: the ingest      *)
(* pipeline (indexer/pipeline.py) with its OCR producer/consumer, the      *)
(* content store and its FTS triggers (core/database.py), the in-memory    *)
(* vector store (core/vector_store.py), the embedder's retry loop          *)
(* (services/vertex_embedder.py), reciprocal rank fusion                   *)
(* (search/rankers/rrf.py) and the search coordinator (search/engine.py).  *)
(***************************************************************************)
EXTENDS Integers, Sequences, FiniteSets, Bags, TLC

(***************************************************************************)
(* Bounds of the model.                                                    *)
(***************************************************************************)
MaxCalls == 2        \* run_pipeline calls in one behaviour
PageSize == 4        \* width and height of every page raster, in pixels
MaxChunkId == 4      \* rowids of text_chunks used in one behaviour
MaxItems == 3        \* texts or images passed to one embedder call
MaxRank == 3         \* length of a ranked list; also the largest top_k
MaxPosts == 2        \* chat requests in one behaviour
MaxAdds == 2         \* add calls on the vector store in one behaviour
MaxText == 5         \* characters of a text given to chunk_text

\* The PDFs submitted: file f has PageCounts[f] pages (the last one is empty).
PageCounts == <<1, 2, 0>>

\* The settings tried: ocr_batch_size and ocr_max_queue_size.
BatchSizes == {1, 2}
QueueSizes == {2}

\* The dimension the vector store is configured with.
Dimensions == {2}

(***************************************************************************)
(* Program constants.                                                      *)
(***************************************************************************)
DEFAULT_CHUNK_SIZE == 512
DEFAULT_CHUNK_OVERLAP == 64
max_retries == 5
DEFAULT_K == 60
MAX_AGENT_STEPS == 10
history_limit == 20
max_workers == 5

NULL == <<"NULL">>          \* SQL NULL / Python None in a nullable column
NoneItem == <<"None">>      \* the sentinel the producer puts last
Unbound == <<"unbound">>    \* a Python local that was never assigned

Files == 1..Len(PageCounts)

Max(S) == CHOOSE m \in S : \A x \in S : x <= m
Min2(a, b) == IF a <= b THEN a ELSE b
Max2(a, b) == IF a >= b THEN a ELSE b

Range(s) == {s[i] : i \in 1..Len(s)}

(***************************************************************************)
(* The inputs: a file's bytes decide its hash, its page count and the text *)
(* and raster of each page.                                                *)
(***************************************************************************)
FileChar == <<"a", "b", "c", "d", "e">>
PageChar == <<"1", "2", "3", "4", "5">>

\* hashlib.sha256(path.read_bytes()).hexdigest(): injective on the contents
sha256(f) == <<"sha256", f>>

\* len(pdf)
NumPagesOf(f) == PageCounts[f]

\* the text the OCR service reads on page p of file f (the last page of a
\* file of several pages is blank)
PageText(f, p) ==
    IF p > 1 /\ p = NumPagesOf(f) THEN <<" ">>
    ELSE <<" ", FileChar[f], PageChar[p]>>

\* the PNG raster of page p of file f
Raster(f, p) == <<"png", f, p>>

(***************************************************************************)
(* text_processor.chunk_text / chunk_ocr_results                           *)
(***************************************************************************)
IsSpace(c) == c = " "

RECURSIVE LStrip(_)
LStrip(s) == IF s # <<>> /\ IsSpace(Head(s)) THEN LStrip(Tail(s)) ELSE s

RECURSIVE RStrip(_)
RStrip(s) ==
    IF s # <<>> /\ IsSpace(s[Len(s)]) THEN RStrip(SubSeq(s, 1, Len(s) - 1)) ELSE s

Strip(s) == RStrip(LStrip(s))

\* text[start:end] with 0-based start and exclusive end, as a Python slice
Slice(s, start, end) == SubSeq(s, start + 1, Min2(end, Len(s)))

\* the loop with start = end: the windows do not overlap
RECURSIVE ChunkLoop_NoOverlap(_, _, _, _, _)
ChunkLoop_NoOverlap(text, start, chunk_size, overlap, chunks) ==
    IF ~(start < Len(text)) THEN chunks
    ELSE LET end == start + chunk_size
             chunk == Slice(text, start, end)
             chunks2 == IF Strip(chunk) # <<>> THEN Append(chunks, chunk) ELSE chunks
             start2 == end
         IN IF start2 >= Len(text) THEN chunks2
            ELSE ChunkLoop_NoOverlap(text, start2, chunk_size, overlap, chunks2)

RECURSIVE ChunkLoop(_, _, _, _, _)
ChunkLoop(text, start, chunk_size, overlap, chunks) ==
    IF ~(start < Len(text)) THEN chunks
    ELSE LET end == start + chunk_size
             chunk == Slice(text, start, end)
             chunks2 == IF Strip(chunk) # <<>> THEN Append(chunks, chunk) ELSE chunks
             start2 == end - overlap
         IN IF start2 >= Len(text) THEN chunks2
            ELSE ChunkLoop(text, start2, chunk_size, overlap, chunks2)

chunk_text(text, chunk_size, overlap) ==
    IF text = <<>> \/ Strip(text) = <<>> THEN <<>>
    ELSE LET t == Strip(text)
         IN IF Len(t) <= chunk_size THEN <<t>>
            ELSE ChunkLoop(t, 0, chunk_size, overlap, <<>>)

\* the chunks of one OCR result (page_id, doc_id, full_text)
ChunksOfResult(r, chunk_size, overlap) ==
    LET cs == chunk_text(r[3], chunk_size, overlap)
    IN [idx \in 1..Len(cs) |-> <<r[1], r[2], idx - 1, cs[idx]>>]

RECURSIVE chunk_ocr_results(_, _, _)
chunk_ocr_results(ocr_results, chunk_size, overlap) ==
    IF ocr_results = <<>> THEN <<>>
    ELSE ChunksOfResult(Head(ocr_results), chunk_size, overlap)
         \o chunk_ocr_results(Tail(ocr_results), chunk_size, overlap)

(***************************************************************************)
(* utils/geometry.py and utils/image_processing.py                         *)
(***************************************************************************)
\* scale_box_to_pixels with normalized=False: clamp to the image bounds
scale_box_to_pixels(y0, x0, y1, x1, img_height, img_width) ==
    << Max2(0, Min2(y0, img_height - 1)),
       Max2(0, Min2(x0, img_width - 1)),
       Max2(0, Min2(y1, img_height)),
       Max2(0, Min2(x1, img_width)) >>

box_to_pixels(box, img_height, img_width) ==
    scale_box_to_pixels(box[1], box[2], box[3], box[4], img_height, img_width)

\* crop_image: the crop is the raster restricted to a rectangle
\* (left, upper, right, lower); an empty box gives the 1px crop (0,0,1,1)
crop_image(image, box, img_height, img_width) ==
    LET p == box_to_pixels(box, img_height, img_width)
    IN IF p[1] >= p[3] \/ p[2] >= p[4]
       THEN <<"crop", image, <<0, 0, 1, 1>> >>
       ELSE <<"crop", image, <<p[2], p[1], p[4], p[3]>> >>

\* vision_processor.process_page on the regions the detector returned:
\* one (label, box_2d, crop_png_bytes) per region
process_page(image, img_width, img_height, regions) ==
    [j \in 1..Len(regions) |->
        << regions[j].label, regions[j].box_2d,
           crop_image(image, regions[j].box_2d, img_height, img_width) >>]

\* what the region detector answers for a raster, when it answers: a box
\* inside the page, a box reaching outside it, a degenerate box, or nothing
GoodBox == <<1, 1, 3, 3>>
OutsideBox == <<0 - 1, 0, PageSize + 2, 2>>
DegenerateBox == <<3, 3, 1, 1>>
DetectorAnswers ==
    << << [label |-> "diagram", box_2d |-> DegenerateBox],
          [label |-> "figure", box_2d |-> GoodBox] >>,
       <<>>,
       << [label |-> "figure", box_2d |-> GoodBox] >>,
       << [label |-> "table", box_2d |-> OutsideBox] >> >>
DetectorAnswer(image) == DetectorAnswers[((image[2] + image[3]) % 4) + 1]

(***************************************************************************)
(* State.                                                                  *)
(***************************************************************************)
VARIABLES
    settings,   \* get_settings(): ocr_batch_size, ocr_max_queue_size
    db,         \* committed rows of the content store
    sess,       \* the rows the pipeline's session sees (committed + flushed)
    vec_ids,    \* InMemoryVectorStore._ids
    storage,    \* files written by the Storage component
    pc,         \* position of run_pipeline (and of its caller)
    run,        \* locals of the running run_pipeline call
    cons,       \* the OCR consumer thread
    result,     \* how the last run_pipeline call ended
    calls,      \* number of run_pipeline calls so far
    text_chunks,        \* the rows of table text_chunks (id, text)
    text_chunks_fts,    \* the rows indexed by text_chunks_fts: a bag of (rowid, text)
    fts_ops,            \* the kinds of statement run on text_chunks so far
    emb,                \* one call of embed_text / embed_images
    rrf,                \* one call of rrf_merge: its argument and its result
    srch,               \* one search request: the stores it reads, its response
    chat,               \* the chat-history store: chat_sessions, chat_messages
    clock,              \* datetime.utcnow(), in ticks
    agent,              \* one call of run_agent: its locals and what it returned
    view,               \* the last answer to GET or POST on a session that is no reply
    posts,              \* number of chat requests so far
    cli,                \* run_index.main over a directory: its loop and what it logged
    _vector_store,      \* the module global of core/vector_store.py
    instances,          \* the InMemoryVectorStore objects created so far
    threads,            \* the threads that call get_vector_store and add
    adds,               \* number of add calls started so far
    chk,                \* one text given to chunk_text and chunk_ocr_results
    pool                \* the ThreadPoolExecutor of the detection calls

pipeVars == <<settings, db, sess, vec_ids, storage, pc, run, cons, result, calls>>

ftsVars == <<text_chunks, text_chunks_fts, fts_ops>>

retryVars == <<emb>>

rrfVars == <<rrf>>

searchVars == <<srch>>

agentVars == <<chat, clock, agent, view, posts>>

cliVars == <<cli>>

vecVars == <<_vector_store, instances, threads, adds>>

chunkVars == <<chk>>

poolVars == <<pool>>

vars == <<settings, db, sess, vec_ids, storage, pc, run, cons, result, calls,
          text_chunks, text_chunks_fts, fts_ops, emb, rrf, srch,
          chat, clock, agent, view, posts, cli,
          _vector_store, instances, threads, adds, chk, pool>>

EmptyStore == [documents |-> {}, pages |-> {}, text_chunks |-> {}, regions |-> {}]

\* Column(Integer, primary_key=True): SQLite gives the row max(rowid) + 1
NextId(rows) == IF rows = {} THEN 1 ELSE Max({r.id : r \in rows}) + 1

NoRun == [file |-> 0, owns |-> TRUE, document_id |-> 0, npages |-> 0,
          page_ids |-> <<>>, fed |-> 0, queue |-> <<>>,
          ocr_results_list |-> <<>>, vision_results |-> <<>>,
          chunks |-> <<>>, chunk_ids |-> <<>>, region_work |-> <<>>,
          all_region_ids |-> <<>>, ocrOut |-> <<>>, detOut |-> <<>>,
          batches |-> <<>>]

NoThread == [pc |-> "none", batch |-> <<>>, k |-> 0, item |-> Unbound]

NoResult == [kind |-> "none", value |-> 0, step |-> "none", file |-> 0, owns |-> TRUE]

PipeInit ==
    /\ settings \in [ocr_batch_size : BatchSizes, ocr_max_queue_size : QueueSizes]
    /\ db = EmptyStore
    /\ sess = EmptyStore
    /\ vec_ids = <<>>
    /\ storage = {}
    /\ pc = "idle"
    /\ run = NoRun
    /\ cons = NoThread
    /\ result = NoResult
    /\ calls = 0

(***************************************************************************)
(* run_pipeline: how a call ends.                                          *)
(***************************************************************************)
\* the duplicate check left out
ExistingDocument_Skipped(documents, file_hash) == {}

\* session.query(Document).filter(Document.file_hash == file_hash).first()
ExistingDocument(documents, file_hash) ==
    {d \in documents : d.file_hash = file_hash}

\* except Exception: rollback when the session is the pipeline's own, raise.
\* With a caller's session the exception reaches ingest_pdf.
\* the except branch without the rollback of the own session
FailWith_NoRollback(step, pending) ==
    /\ result' = [kind |-> "raised", value |-> run.document_id, step |-> step,
                  file |-> run.file, owns |-> run.owns]
    /\ sess' = pending
    /\ pc' = IF run.owns THEN "idle" ELSE "caller_except"
    /\ run' = NoRun
    /\ cons' = NoThread

FailWith(step, pending) ==
    /\ result' = [kind |-> "raised", value |-> run.document_id, step |-> step,
                  file |-> run.file, owns |-> run.owns]
    /\ IF run.owns
       THEN /\ sess' = db                \* session.rollback(); session.close()
            /\ pc' = "idle"
       ELSE /\ sess' = pending
            /\ pc' = "caller_except"
    /\ run' = NoRun
    /\ cons' = NoThread

Fail(step) == FailWith(step, sess)

\* path exists; hash; own session or the caller's; duplicate check
Begin(f, owns) ==
    /\ pc = "idle"
    /\ calls < MaxCalls
    /\ calls' = calls + 1
    /\ LET existing == ExistingDocument(sess.documents, sha256(f))
       IN IF existing # {}
          THEN /\ result' = [kind |-> "returned",
                             value |-> (CHOOSE d \in existing : TRUE).id,
                             step |-> "duplicate", file |-> f, owns |-> owns]
               /\ UNCHANGED <<pc, run>>
          ELSE /\ result' = NoResult
               /\ run' = [NoRun EXCEPT !.file = f, !.owns = owns]
               /\ pc' = "render"
    /\ UNCHANGED <<settings, db, sess, vec_ids, storage, cons>>

\* render_pdf_pages, then the Document row (flush gives its id)
Render ==
    /\ pc = "render"
    /\ \/ /\ Fail("render")
          /\ UNCHANGED <<settings, db, vec_ids, storage, calls>>
       \/ /\ NumPagesOf(run.file) = 0
          /\ result' = [kind |-> "returned_none", value |-> 0, step |-> "render",
                        file |-> run.file, owns |-> run.owns]
          /\ pc' = "idle"
          /\ run' = NoRun
          /\ UNCHANGED <<settings, db, sess, vec_ids, storage, cons, calls>>
       \/ /\ NumPagesOf(run.file) > 0
          /\ IF \E d \in sess.documents : d.file_hash = sha256(run.file)
             THEN /\ Fail("insert_document")     \* UNIQUE(file_hash)
                  /\ UNCHANGED <<settings, db, vec_ids, storage, calls>>
             ELSE LET document_id == NextId(sess.documents)
                      doc == [id |-> document_id, file_hash |-> sha256(run.file),
                              total_pages |-> NumPagesOf(run.file),
                              storage_path |-> NULL]
                  IN /\ sess' = [sess EXCEPT !.documents = @ \cup {doc}]
                     /\ run' = [run EXCEPT !.document_id = document_id,
                                           !.npages = NumPagesOf(run.file)]
                     /\ pc' = "save_pages"
                     /\ UNCHANGED <<settings, db, vec_ids, storage, cons, result, calls>>

\* storage.save_page for every page, the Page rows, then the consumer thread
SavePages ==
    /\ pc = "save_pages"
    /\ \/ \E j \in 1..run.npages :        \* save_page raises at page j
            /\ storage' = storage \cup
                   {<<"pages", run.document_id, n>> : n \in 1..(j - 1)}
            /\ Fail("save_page")
            /\ UNCHANGED <<settings, db, vec_ids, calls>>
       \/ LET base == NextId(sess.pages) - 1
              rows == {[id |-> base + i, document_id |-> run.document_id,
                        page_num |-> i, ocr_text |-> NULL] : i \in 1..run.npages}
          IN /\ storage' = storage \cup
                    {<<"pages", run.document_id, n>> : n \in 1..run.npages}
             /\ sess' = [sess EXCEPT !.pages = @ \cup rows]
             /\ run' = [run EXCEPT
                          !.page_ids = [i \in 1..run.npages |-> base + i],
                          !.ocrOut = [i \in 1..run.npages |-> "none"],
                          !.detOut = [i \in 1..run.npages |-> "none"],
                          !.vision_results = [i \in 1..run.npages |-> <<>>]]
             /\ cons' = [pc |-> "for", batch |-> <<>>, k |-> 0, item |-> Unbound]
             /\ pc' = "feed"
             /\ UNCHANGED <<settings, db, vec_ids, result, calls>>

\* task_queue.put(...) for every page, then task_queue.put(None); put blocks
\* while the queue is full
Feed ==
    /\ pc = "feed"
    /\ Len(run.queue) < settings.ocr_max_queue_size
    /\ IF run.fed < run.npages
       THEN LET i == run.fed + 1
                item == <<"item", i, Raster(run.file, i), run.page_ids[i],
                          run.document_id>>
            IN /\ run' = [run EXCEPT !.queue = Append(@, item), !.fed = i]
               /\ pc' = pc
       ELSE /\ run' = [run EXCEPT !.queue = Append(@, NoneItem), !.fed = @ + 1]
            /\ pc' = "detect"
    /\ UNCHANGED <<settings, db, sess, vec_ids, storage, cons, result, calls>>

(***************************************************************************)
(* _ocr_consumer                                                           *)
(***************************************************************************)
\* what the OCR service can do with a batch: the call raises, or it answers
\* one response per image, each with or without an error
OcrOutcomes(n) == {<<"raise">>} \cup [1..n -> {"ok", "err"}]

\* gcp_vision.batch_ocr: (index, full_text, error_message) per image
batch_ocr(image_bytes_list, o) ==
    [i \in 1..Len(image_bytes_list) |->
        IF o[i] = "err" THEN <<i - 1, <<>>, <<"error">> >>
        ELSE <<i - 1, PageText(image_bytes_list[i][2], image_bytes_list[i][3]), NULL>>]

\* the texts paired with the page ids in the opposite order
ConsumerResults_ByArrival(batch, o) ==
    LET page_ids == [i \in 1..Len(batch) |-> batch[i][4]]
        doc_ids == [i \in 1..Len(batch) |-> batch[i][5]]
        img_bytes_list == [i \in 1..Len(batch) |-> batch[i][3]]
    IN IF o = <<"raise">>
       THEN [i \in 1..Len(batch) |-> <<page_ids[i], doc_ids[i], <<>> >>]
       ELSE LET ocr_results == batch_ocr(img_bytes_list, o)
            IN [i \in 1..Len(ocr_results) |->
                  <<page_ids[Len(batch) + 1 - i], doc_ids[i],
                    IF ocr_results[i][3] = NULL THEN ocr_results[i][2] ELSE <<>> >>]

\* the entries the consumer appends for a batch, lines 59-72
ConsumerResults(batch, o) ==
    LET page_ids == [i \in 1..Len(batch) |-> batch[i][4]]
        doc_ids == [i \in 1..Len(batch) |-> batch[i][5]]
        img_bytes_list == [i \in 1..Len(batch) |-> batch[i][3]]
    IN IF o = <<"raise">>
       THEN [i \in 1..Len(batch) |-> <<page_ids[i], doc_ids[i], <<>> >>]
       ELSE LET ocr_results == batch_ocr(img_bytes_list, o)
            IN [i \in 1..Len(ocr_results) |->
                  <<page_ids[i], doc_ids[i],
                    IF ocr_results[i][3] = NULL THEN ocr_results[i][2] ELSE <<>> >>]

\* the ghost record of what the service did with each page of the batch
MarkOcr(ocrOut, batch, o) ==
    [i \in 1..Len(ocrOut) |->
        IF \E j \in 1..Len(batch) : batch[j][2] = i
        THEN LET j == CHOOSE j \in 1..Len(batch) : batch[j][2] = i
             IN IF o = <<"raise">> THEN "raise" ELSE o[j]
        ELSE ocrOut[i]]

\* the code after the for loop: lines 53-72, back to the while test;
\* run.batches records the number of pages of each batch_ocr call
AfterFor(q, batch, item) ==
    IF batch = <<>>
    THEN /\ cons' = [pc |-> IF item = Unbound THEN "dead"      \* UnboundLocalError
                            ELSE IF item = NoneItem THEN "done"
                            ELSE "for",
                     batch |-> <<>>, k |-> 0, item |-> item]
         /\ run' = [run EXCEPT !.queue = q]
    ELSE \E o \in OcrOutcomes(Len(batch)) :
         /\ cons' = [pc |-> "for", batch |-> <<>>, k |-> 0, item |-> item]
         /\ run' = [run EXCEPT
                      !.queue = q,
                      !.ocr_results_list = @ \o ConsumerResults(batch, o),
                      !.ocrOut = MarkOcr(@, batch, o),
                      !.batches = Append(@, Len(batch))]

\* a for loop that collects one item more than batch_size
ConsumerGet_OneMore ==
    /\ cons.pc = "for"
    /\ run.queue # <<>>
    /\ LET item == Head(run.queue)
           q == Tail(run.queue)
       IN IF item = NoneItem
          THEN AfterFor(q, cons.batch, item)
          ELSE IF cons.k + 1 = settings.ocr_batch_size + 1
               THEN AfterFor(q, Append(cons.batch, item), item)
               ELSE /\ cons' = [cons EXCEPT !.batch = Append(@, item),
                                            !.k = @ + 1, !.item = item]
                    /\ run' = [run EXCEPT !.queue = q]
    /\ UNCHANGED <<settings, db, sess, vec_ids, storage, pc, result, calls>>

\* task_queue.get(timeout=1) returns an item
ConsumerGet ==
    /\ cons.pc = "for"
    /\ run.queue # <<>>
    /\ LET item == Head(run.queue)
           q == Tail(run.queue)
       IN IF item = NoneItem
          THEN AfterFor(q, cons.batch, item)
          ELSE IF cons.k + 1 = settings.ocr_batch_size
               THEN AfterFor(q, Append(cons.batch, item), item)
               ELSE /\ cons' = [cons EXCEPT !.batch = Append(@, item),
                                            !.k = @ + 1, !.item = item]
                    /\ run' = [run EXCEPT !.queue = q]
    /\ UNCHANGED <<settings, db, sess, vec_ids, storage, pc, result, calls>>

\* task_queue.get(timeout=1) raises queue.Empty after a second without item
ConsumerTimeout ==
    /\ cons.pc = "for"
    /\ run.queue = <<>>
    /\ AfterFor(run.queue, cons.batch, cons.item)
    /\ UNCHANGED <<settings, db, sess, vec_ids, storage, pc, result, calls>>

(***************************************************************************)
(* run_pipeline: detection, join, embedding, rows, commit.                 *)
(***************************************************************************)
\* a wrapper without the try/except: the detector's exception aborts the run
Detect_Propagates(i) ==
    /\ pc = "detect"
    /\ i \in 1..run.npages
    /\ run.detOut[i] = "none"
    /\ LET image == Raster(run.file, i)
           last == \A j \in 1..run.npages : j # i => run.detOut[j] # "none"
       IN \/ /\ result' = [kind |-> "raised", value |-> run.document_id,
                           step |-> "detect", file |-> run.file, owns |-> run.owns]
             /\ sess' = IF run.owns THEN db ELSE sess
             /\ pc' = IF run.owns THEN "idle" ELSE "caller_except"
             /\ run' = NoRun
             /\ cons' = NoThread
             /\ UNCHANGED <<settings, db, vec_ids, storage, calls>>
          \/ /\ run' = [run EXCEPT
                          !.detOut[i] = "ok",
                          !.vision_results[i] =
                              process_page(image, PageSize, PageSize,
                                           DetectorAnswer(image))]
             /\ pc' = IF last THEN "join" ELSE pc
             /\ UNCHANGED <<settings, db, sess, vec_ids, storage, cons, result, calls>>

\* one future of the detection pool completes: _process_page_wrapper(idx).
\* run.detOut[i] is the state of the future; a vision_results entry that is
\* still None is the empty list here (line 245 treats both alike).
Detect(i) ==
    /\ pc = "detect"
    /\ i \in 1..run.npages
    /\ run.detOut[i] = "none"
    /\ LET image == Raster(run.file, i)
           last == \A j \in 1..run.npages : j # i => run.detOut[j] # "none"
       IN /\ \/ run' = [run EXCEPT !.detOut[i] = "raise",      \* except: return idx, []
                                   !.vision_results[i] = <<>>]
             \/ run' = [run EXCEPT
                          !.detOut[i] = "ok",
                          !.vision_results[i] =
                              process_page(image, PageSize, PageSize,
                                           DetectorAnswer(image))]
          /\ pc' = IF last THEN "join" ELSE pc
    /\ UNCHANGED <<settings, db, sess, vec_ids, storage, cons, result, calls>>

\* page_text_map: the last entry of the result list for a page id
HasText(results, page_id) == \E n \in 1..Len(results) : results[n][1] = page_id
TextFor(results, page_id) ==
    results[Max({n \in 1..Len(results) : results[n][1] = page_id})][3]

RECURSIVE RegionWork(_, _)
RegionWork(vision_results, i) ==
    IF i > Len(vision_results) THEN <<>>
    ELSE [j \in 1..Len(vision_results[i]) |-> <<i, vision_results[i][j]>>]
         \o RegionWork(vision_results, i + 1)

ChunkVectorId(document_id, page_id, chunk_idx) ==
    <<"chunk", document_id, page_id, chunk_idx>>

RegionVectorId(document_id, region_id) == <<"region", document_id, region_id>>

\* run_pipeline without ocr_consumer_thread.join()
Join_WithoutJoin ==
    /\ pc = "join"
    /\ LET results == run.ocr_results_list
           chunks == chunk_ocr_results(results, DEFAULT_CHUNK_SIZE,
                                       DEFAULT_CHUNK_OVERLAP)
       IN /\ sess' = [sess EXCEPT !.pages =
                 {IF p.document_id = run.document_id /\ HasText(results, p.id)
                  THEN [p EXCEPT !.ocr_text = TextFor(results, p.id)]
                  ELSE p : p \in @}]
          /\ run' = [run EXCEPT
                       !.chunks = chunks,
                       !.chunk_ids = [n \in 1..Len(chunks) |->
                           ChunkVectorId(run.document_id, chunks[n][1], chunks[n][3])],
                       !.region_work = RegionWork(run.vision_results, 1)]
          /\ pc' = "embed_text"
    /\ UNCHANGED <<settings, db, vec_ids, storage, cons, result, calls>>

\* ocr_consumer_thread.join(); Page.ocr_text; chunk_ocr_results
Join ==
    /\ pc = "join"
    /\ cons.pc \in {"done", "dead"}
    /\ LET results == run.ocr_results_list
           chunks == chunk_ocr_results(results, DEFAULT_CHUNK_SIZE,
                                       DEFAULT_CHUNK_OVERLAP)
       IN /\ sess' = [sess EXCEPT !.pages =
                 {IF p.document_id = run.document_id /\ HasText(results, p.id)
                  THEN [p EXCEPT !.ocr_text = TextFor(results, p.id)]
                  ELSE p : p \in @}]
          /\ run' = [run EXCEPT
                       !.chunks = chunks,
                       !.chunk_ids = [n \in 1..Len(chunks) |->
                           ChunkVectorId(run.document_id, chunks[n][1], chunks[n][3])],
                       !.region_work = RegionWork(run.vision_results, 1)]
          /\ pc' = "embed_text"
    /\ UNCHANGED <<settings, db, vec_ids, storage, cons, result, calls>>

\* an add that returns before it extends the lists
VecStoreAdd_Dropped(ids, new_ids) == ids

\* InMemoryVectorStore.add: the ids are appended
VecStoreAdd(ids, new_ids) == ids \o new_ids

\* embed_text(chunk_texts); vec_store.add(chunk_ids, vectors, metadata)
EmbedText ==
    /\ pc = "embed_text"
    /\ IF run.chunks = <<>>
       THEN /\ pc' = "regions"
            /\ UNCHANGED <<settings, db, sess, vec_ids, storage, run, cons, result, calls>>
       ELSE \/ /\ vec_ids' = VecStoreAdd(vec_ids, run.chunk_ids)
               /\ pc' = "insert_chunks"
               /\ UNCHANGED <<settings, db, sess, storage, run, cons, result, calls>>
            \/ /\ Fail("embed_text")      \* quota exhausted after retries, ...
               /\ UNCHANGED <<settings, db, vec_ids, storage, calls>>

\* the TextChunk rows, lines 225-235
InsertChunks ==
    /\ pc = "insert_chunks"
    /\ LET base == NextId(sess.text_chunks) - 1
           rows == {[id |-> base + n, page_id |-> run.chunks[n][1],
                     document_id |-> run.chunks[n][2],
                     chunk_index |-> run.chunks[n][3], text |-> run.chunks[n][4],
                     vector_id |-> run.chunk_ids[n]] : n \in 1..Len(run.chunks)}
       IN sess' = [sess EXCEPT !.text_chunks = @ \cup rows]
    /\ pc' = "regions"
    /\ UNCHANGED <<settings, db, vec_ids, storage, run, cons, result, calls>>

\* the Region row of one (label, box_2d, crop_bytes), lines 249-273
RegionRow(region_id, page_id, document_id, label, box_2d) ==
    [id |-> region_id, page_id |-> page_id, document_id |-> document_id,
     label |-> label,
     box_y0 |-> box_2d[1], box_x0 |-> box_2d[2],
     box_y1 |-> box_2d[3], box_x1 |-> box_2d[4],
     crop_path |-> NULL, vector_id |-> NULL]

InsertRegion ==
    /\ pc = "regions"
    /\ IF run.region_work = <<>>
       THEN /\ pc' = "embed_images"
            /\ UNCHANGED <<settings, db, sess, vec_ids, storage, run, cons, result, calls>>
       ELSE LET w == Head(run.region_work)
                page_id == run.page_ids[w[1]]
                region_id == NextId(sess.regions)
                r == RegionRow(region_id, page_id, run.document_id, w[2][1], w[2][2])
                crop_path == <<"crops", run.document_id, region_id>>
                vector_id == RegionVectorId(run.document_id, region_id)
            IN \/ /\ storage' = storage \cup {crop_path}
                  /\ sess' = [sess EXCEPT !.regions = @ \cup
                        {[r EXCEPT !.crop_path = crop_path, !.vector_id = vector_id]}]
                  /\ run' = [run EXCEPT !.region_work = Tail(@),
                                        !.all_region_ids = Append(@, vector_id)]
                  /\ UNCHANGED <<settings, db, vec_ids, pc, cons, result, calls>>
               \/ /\ FailWith("save_crop",        \* save_crop raises
                              [sess EXCEPT !.regions = @ \cup {r}])
                  /\ UNCHANGED <<settings, db, vec_ids, storage, calls>>

\* embed_images(all crops); vec_store.add(all_region_ids, ...)
EmbedImages ==
    /\ pc = "embed_images"
    /\ IF run.all_region_ids = <<>>
       THEN /\ pc' = "save_pdf"
            /\ UNCHANGED <<settings, db, sess, vec_ids, storage, run, cons, result, calls>>
       ELSE \/ /\ vec_ids' = VecStoreAdd(vec_ids, run.all_region_ids)
               /\ pc' = "save_pdf"
               /\ UNCHANGED <<settings, db, sess, storage, run, cons, result, calls>>
            \/ /\ Fail("embed_images")
               /\ UNCHANGED <<settings, db, vec_ids, storage, calls>>

\* storage.save_pdf; doc.storage_path; commit of the own session; return
SavePdf ==
    /\ pc = "save_pdf"
    /\ \/ LET stored_path == <<"pdfs", run.document_id, run.file>>
              done == [sess EXCEPT !.documents =
                         {IF d.id = run.document_id
                          THEN [d EXCEPT !.storage_path = stored_path]
                          ELSE d : d \in @}]
          IN /\ storage' = storage \cup {stored_path}
             /\ sess' = done
             /\ IF run.owns
                THEN /\ db' = done                 \* session.commit()
                     /\ pc' = "idle"
                ELSE /\ db' = db
                     /\ pc' = "caller_ok"
             /\ result' = [kind |-> "returned", value |-> run.document_id,
                           step |-> "done", file |-> run.file, owns |-> run.owns]
             /\ run' = NoRun
             /\ cons' = NoThread
             /\ UNCHANGED <<settings, vec_ids, calls>>
       \/ /\ Fail("save_pdf")
          /\ UNCHANGED <<settings, db, vec_ids, storage, calls>>

(***************************************************************************)
(* api/routes/ingest.py: the caller that owns the session                  *)
(***************************************************************************)
\* doc_id returned: session.commit()
IngestCommit ==
    /\ pc = "caller_ok"
    /\ db' = sess
    /\ pc' = "idle"
    /\ UNCHANGED <<settings, sess, vec_ids, storage, run, cons, result, calls>>

\* except Exception: session.rollback()
IngestRollback ==
    /\ pc = "caller_except"
    /\ sess' = db
    /\ pc' = "idle"
    /\ UNCHANGED <<settings, db, vec_ids, storage, run, cons, result, calls>>

PipeNext ==
    \/ \E f \in Files, owns \in BOOLEAN : Begin(f, owns)
    \/ Render
    \/ SavePages
    \/ Feed
    \/ ConsumerGet
    \/ ConsumerTimeout
    \/ \E i \in 1..Max(Range(PageCounts)) : Detect(i)
    \/ Join
    \/ EmbedText
    \/ InsertChunks
    \/ InsertRegion
    \/ EmbedImages
    \/ SavePdf
    \/ IngestCommit
    \/ IngestRollback

(***************************************************************************)
(* core/database.py: table text_chunks, the FTS5 index text_chunks_fts and *)
(* the three triggers created by init_db.                                  *)
(***************************************************************************)
ChunkTexts == {<<"a">>, <<"b">>, <<"a", "b">>}

\* INSERT INTO text_chunks_fts(rowid, text) VALUES (id, text)
FtsInsert(fts, id, text) == fts (+) SetToBag({<<id, text>>})

\* INSERT INTO text_chunks_fts(text_chunks_fts, rowid, text)
\*   VALUES ('delete', id, text)
FtsDelete(fts, id, text) == fts (-) SetToBag({<<id, text>>})

\* trigger text_chunks_ai AFTER INSERT
text_chunks_ai(fts, new) == FtsInsert(fts, new.id, new.text)

\* trigger text_chunks_ad AFTER DELETE
text_chunks_ad(fts, old) == FtsDelete(fts, old.id, old.text)

\* an update trigger that forgets the 'delete' of the old row
text_chunks_au_InsertOnly(fts, old, new) == FtsInsert(fts, new.id, new.text)

\* trigger text_chunks_au AFTER UPDATE
text_chunks_au(fts, old, new) ==
    FtsInsert(FtsDelete(fts, old.id, old.text), new.id, new.text)

FtsInit ==
    /\ text_chunks = {}
    /\ text_chunks_fts = EmptyBag
    /\ fts_ops = {}

\* INSERT INTO text_chunks (session.add(tc); session.flush())
InsertTextChunk(text) ==
    /\ NextId(text_chunks) <= MaxChunkId
    /\ LET new == [id |-> NextId(text_chunks), text |-> text]
       IN /\ text_chunks' = text_chunks \cup {new}
          /\ text_chunks_fts' = text_chunks_ai(text_chunks_fts, new)
    /\ fts_ops' = fts_ops \cup {"insert"}

\* UPDATE text_chunks SET text = :text WHERE id = :id
UpdateTextChunk(old, text) ==
    /\ old \in text_chunks
    /\ LET new == [old EXCEPT !.text = text]
       IN /\ text_chunks' = (text_chunks \ {old}) \cup {new}
          /\ text_chunks_fts' = text_chunks_au(text_chunks_fts, old, new)
    /\ fts_ops' = fts_ops \cup {"update"}

\* DELETE FROM text_chunks WHERE id = :id
DeleteTextChunk(old) ==
    /\ old \in text_chunks
    /\ text_chunks' = text_chunks \ {old}
    /\ text_chunks_fts' = text_chunks_ad(text_chunks_fts, old)
    /\ fts_ops' = fts_ops \cup {"delete"}

FtsNext ==
    \/ \E text \in ChunkTexts : InsertTextChunk(text)
    \/ \E old \in text_chunks, text \in ChunkTexts : UpdateTextChunk(old, text)
    \/ \E old \in text_chunks : DeleteTextChunk(old)

(***************************************************************************)
(* services/vertex_embedder.py: the retry loop of embed_text and           *)
(* embed_images.                                                           *)
(***************************************************************************)
EmbedFunctions == {"embed_text", "embed_images"}

NoEmbed == [fn |-> "none", n |-> 0, i |-> 0, retries |-> 0, attempts |-> 0,
            sleeps |-> <<>>, out |-> 0, status |-> "idle", error |-> "none"]

RetryInit == emb = NoEmbed

\* a loop that gives up one retry earlier
GivesUp_AtMax(retries) == retries >= max_retries

\* if retries > max_retries: raise e
GivesUp(retries) == retries > max_retries

\* wait_time = 2 ** retries
BackoffWait(retries) == 2 ^ retries

\* embed_text(texts) / embed_images(image_inputs) is called with n items
EmbedStart(fn, n) ==
    /\ emb.status \in {"idle", "returned", "raised"}
    /\ emb' = [NoEmbed EXCEPT !.fn = fn, !.n = n,
                              !.status = IF n = 0 THEN "returned" ELSE "running"]

\* model.get_embeddings succeeds: out.append, break, next item
ModelAnswers ==
    /\ emb.status = "running"
    /\ emb' = IF emb.i + 1 = emb.n
              THEN [emb EXCEPT !.attempts = @ + 1, !.out = @ + 1, !.status = "returned"]
              ELSE [emb EXCEPT !.i = @ + 1, !.out = @ + 1, !.retries = 0,
                               !.attempts = 0, !.sleeps = <<>>]

\* model.get_embeddings raises exceptions.ResourceExhausted
ModelQuotaExhausted ==
    /\ emb.status = "running"
    /\ LET retries == emb.retries + 1
       IN emb' = IF GivesUp(retries)
                 THEN [emb EXCEPT !.attempts = @ + 1, !.retries = retries,
                                  !.status = "raised", !.error = "quota"]
                 ELSE [emb EXCEPT !.attempts = @ + 1, !.retries = retries,
                                  !.sleeps = Append(@, BackoffWait(retries))]

\* model.get_embeddings (or Image.load_from_file) raises another exception
ModelFails ==
    /\ emb.status = "running"
    /\ emb' = [emb EXCEPT !.attempts = @ + 1, !.status = "raised", !.error = "other"]

RetryNext ==
    \/ \E fn \in EmbedFunctions, n \in 0..MaxItems : EmbedStart(fn, n)
    \/ ModelAnswers
    \/ ModelQuotaExhausted
    \/ ModelFails

(***************************************************************************)
(* search/rankers/rrf.py.  A score is an exact multiple of 1 / RrfScale,   *)
(* RrfScale being the product of the denominators DEFAULT_K + 1 ..         *)
(* DEFAULT_K + MaxRank; a ranked list holds (id, score) pairs.             *)
(***************************************************************************)
RrfIds == {"a", "b", "c", "d"}

RECURSIVE ProductOf(_, _)
ProductOf(from, to) == IF from > to THEN 1 ELSE from * ProductOf(from + 1, to)

RrfScale == ProductOf(DEFAULT_K + 1, DEFAULT_K + MaxRank)

\* a contribution that takes enumerate's 0-based rank for the rank
Contribution_ZeroBased(k, rank) == RrfScale \div (k + rank)

\* 1.0 / (k + rank + 1), rank being enumerate's 0-based index
Contribution(k, rank) == RrfScale \div (k + rank + 1)

\* rrf_scores[id_] = rrf_scores.get(id_, 0) + c; a dict keeps insertion order
DictAdd(rrf_scores, id_, c) ==
    IF \E n \in 1..Len(rrf_scores) : rrf_scores[n][1] = id_
    THEN [n \in 1..Len(rrf_scores) |->
              IF rrf_scores[n][1] = id_
              THEN <<id_, rrf_scores[n][2] + c>>
              ELSE rrf_scores[n]]
    ELSE Append(rrf_scores, <<id_, 0 + c>>)

\* for rank, item in enumerate(lst)
RECURSIVE RrfInner(_, _, _, _)
RrfInner(rrf_scores, lst, rank, k) ==
    IF rank >= Len(lst) THEN rrf_scores
    ELSE RrfInner(DictAdd(rrf_scores, lst[rank + 1][1], Contribution(k, rank)),
                  lst, rank + 1, k)

\* for lst in result_lists
RECURSIVE RrfOuter(_, _, _, _)
RrfOuter(rrf_scores, result_lists, i, k) ==
    IF i > Len(result_lists) THEN rrf_scores
    ELSE RrfOuter(RrfInner(rrf_scores, result_lists[i], 0, k), result_lists, i + 1, k)

\* the place of x in a list sorted by score, descending: after every entry
\* whose score is not smaller (sorted is stable, also with reverse=True)
InsertDesc(sorted, x) ==
    LET n == Cardinality({m \in 1..Len(sorted) : sorted[m][2] >= x[2]})
    IN SubSeq(sorted, 1, n) \o <<x>> \o SubSeq(sorted, n + 1, Len(sorted))

\* sorted(items, key=lambda x: x[1], reverse=True)
RECURSIVE SortedByScoreDesc(_)
SortedByScoreDesc(items) ==
    IF items = <<>> THEN <<>>
    ELSE InsertDesc(SortedByScoreDesc(SubSeq(items, 1, Len(items) - 1)),
                    items[Len(items)])

rrf_merge(result_lists, k) == SortedByScoreDesc(RrfOuter(<<>>, result_lists, 1, k))

\* the ranked lists a caller may pass: no id twice in one list
RankedLists ==
    UNION {{lst \in [1..n -> RrfIds \X {10}] :
                \A a, b \in 1..n : lst[a][1] = lst[b][1] => a = b} : n \in 0..MaxRank}

RrfInit ==
    /\ rrf \in [result_lists : UNION {[1..n -> RankedLists] : n \in 0..2},
                out : {<<>>}, pc : {"call"}]

\* out = rrf_merge(result_lists)
RrfMerge ==
    /\ rrf.pc = "call"
    /\ rrf' = [rrf EXCEPT !.out = rrf_merge(rrf.result_lists, DEFAULT_K),
                          !.pc = "done"]

RrfNext == RrfMerge

RrfIdle == rrf = [result_lists |-> <<>>, out |-> <<>>, pc |-> "idle"]

(***************************************************************************)
(* search/keyword_search.py, search/retrievers/vector_retriever.py and     *)
(* search/engine.py.  A float is a pair of integers, numerator and         *)
(* denominator; a rounded score is an integer number of 1/10000.           *)
(***************************************************************************)
Some(x) == <<"some", x>>       \* a value in an Optional column or field

IndexedDocuments == {[id |-> 1, filename |-> "a.pdf"]}

IndexedPages ==
    {[id |-> 1, document_id |-> 1, page_num |-> 1],
     [id |-> 2, document_id |-> 1, page_num |-> 2]}

\* the TextChunk and Region rows a content store may hold
IndexedChunks ==
    {[id |-> 1, document_id |-> 1, page_id |-> 1, chunk_index |-> 0,
      text |-> <<"x">>, vector_id |-> <<"chunk", 1, 1, 0>>],
     [id |-> 2, document_id |-> 1, page_id |-> 2, chunk_index |-> 0,
      text |-> <<"x", " ", "y">>, vector_id |-> <<"chunk", 1, 2, 0>>]}

IndexedRegions ==
    {[id |-> 1, document_id |-> 1, page_id |-> 1, label |-> <<"x">>,
      vector_id |-> <<"region", 1, 1>>],
     [id |-> 2, document_id |-> 1, page_id |-> 2, label |-> <<"y", "x">>,
      vector_id |-> NULL]}

\* the ids a vector store may hold: of rows above, and of no row at all
VectorIds ==
    {<<"chunk", 1, 1, 0>>, <<"chunk", 1, 2, 0>>, <<"region", 1, 1>>,
     <<"chunk", 9, 9, 0>>}

Queries == {<<"x">>, <<" ", "y">>, <<" ">>}

\* the rows of a set in the order of their ids
RECURSIVE OrderById(_)
OrderById(rows) ==
    IF rows = {} THEN <<>>
    ELSE LET r == CHOOSE x \in rows : \A y \in rows : x.id <= y.id
         IN <<r>> \o OrderById(rows \ {r})

Reverse(s) == [n \in 1..Len(s) |-> s[Len(s) + 1 - n]]

Limit(s, n) == SubSeq(s, 1, Min2(n, Len(s)))

\* text_chunks_fts MATCH :q, for a query of one token
FtsMatch(text_, q) == q # <<>> /\ q[1] \in Range(text_)

\* Region.label.ilike('%' + q + '%')
ILike(label, q) ==
    \E a \in 1..(Len(label) - Len(q) + 1) : SubSeq(label, a, a + Len(q) - 1) = q

\* JOIN documents d / JOIN pages p
Joined(row) ==
    /\ \E d \in IndexedDocuments : d.id = row.document_id
    /\ \E p \in IndexedPages : p.id = row.page_id

DocumentOf(row) == CHOOSE d \in IndexedDocuments : d.id = row.document_id

PageOf(row) == CHOOSE p \in IndexedPages : p.id = row.page_id

\* the result tuple of an FTS row
KwChunkRow(tc) ==
    [document_id |-> tc.document_id, document_title |-> DocumentOf(tc).filename,
     page_id |-> tc.page_id, page_num |-> PageOf(tc).page_num,
     result_type |-> "text", chunk_id |-> Some(tc.id), region_id |-> NULL,
     snippet |-> Slice(tc.text, 0, 500), score |-> <<10, 10>>,
     vector_id |-> tc.vector_id]

\* the result tuple of a region whose label matches
KwRegionRow(reg) ==
    [document_id |-> reg.document_id, document_title |-> DocumentOf(reg).filename,
     page_id |-> reg.page_id, page_num |-> PageOf(reg).page_num,
     result_type |-> "image", chunk_id |-> NULL, region_id |-> Some(reg.id),
     snippet |-> reg.label, score |-> <<9, 10>>,
     vector_id |-> reg.vector_id]

\* ORDER BY rank: the order bm25 gives the matching rows for this query
FtsRanked(rows, q) ==
    IF q[1] = "x" THEN OrderById(rows) ELSE Reverse(OrderById(rows))

keyword_search(store, query, top_k) ==
    IF Strip(query) = <<>> THEN <<>>
    ELSE
      LET fts == Limit(FtsRanked({tc \in store.text_chunks :
                                     FtsMatch(tc.text, query) /\ Joined(tc)}, query),
                       top_k)
          text_hits == [n \in 1..Len(fts) |-> KwChunkRow(fts[n])]
          r2 == IF Len(text_hits) < top_k
                THEN Limit(OrderById({reg \in store.regions :
                                         ILike(reg.label, query) /\ Joined(reg)}),
                           top_k - Len(text_hits))
                ELSE <<>>
          results == text_hits \o [n \in 1..Len(r2) |-> KwRegionRow(r2[n])]
          keyed == [n \in 1..Len(results) |-> <<results[n], results[n].score[1]>>]
          sorted == SortedByScoreDesc(keyed)
      IN Limit([n \in 1..Len(sorted) |-> sorted[n][1]], top_k)

\* store.search(qvec, top_k): the top_k entries of highest similarity, as
\* (id, score); [] when embed_query raises
vector_search(vec_ranked, top_k, embed_fails) ==
    IF embed_fails THEN <<>>
    ELSE [n \in 1..Min2(top_k, Len(vec_ranked)) |->
             <<vec_ranked[n], <<MaxRank + 1 - n, MaxRank + 1>> >>]

\* a dict as a function; d.update(e)
DictUpdate(d, e) ==
    [x \in DOMAIN d \cup DOMAIN e |-> IF x \in DOMAIN e THEN e[x] ELSE d[x]]

ChunkInfo(tc) ==
    <<tc.document_id, DocumentOf(tc).filename, tc.page_id, PageOf(tc).page_num,
      "text", Some(tc.id), NULL, Slice(tc.text, 0, 500)>>

RegionInfo(reg) ==
    <<reg.document_id, DocumentOf(reg).filename, reg.page_id, PageOf(reg).page_num,
      "image", NULL, Some(reg.id), reg.label>>

_resolve_vector_ids(store, vector_ids) ==
    IF vector_ids = <<>> THEN <<>>
    ELSE
      LET chunks == {tc \in store.text_chunks :
                        tc.vector_id \in Range(vector_ids) /\ Joined(tc)}
          found == [vid \in {tc.vector_id : tc \in chunks} |->
                       ChunkInfo(CHOOSE tc \in chunks : tc.vector_id = vid)]
          remaining_ids == {vid \in Range(vector_ids) : vid \notin DOMAIN found}
          regions == {reg \in store.regions :
                         reg.vector_id \in remaining_ids /\ Joined(reg)}
      IN DictUpdate(found,
                    [vid \in {reg.vector_id : reg \in regions} |->
                        RegionInfo(CHOOSE reg \in regions : reg.vector_id = vid)])

\* the positional division num * 10^digits / den: <<quotient, remainder>>
RECURSIVE ScaledDiv(_, _, _)
ScaledDiv(num, den, digits) ==
    IF digits = 0 THEN <<num \div den, num % den>>
    ELSE LET p == ScaledDiv(num, den, digits - 1)
         IN <<p[1] * 10 + (p[2] * 10) \div den, (p[2] * 10) % den>>

\* round(score, 4), in units of 1/10000
Round4(score) ==
    LET p == ScaledDiv(score[1], score[2], 4)
    IN IF 2 * p[2] >= score[2] THEN p[1] + 1 ELSE p[1]

_row_to_item(info, score, vector_id) ==
    [document_id |-> info[1], document_title |-> info[2], page_id |-> info[3],
     page_num |-> info[4], result_type |-> info[5], chunk_id |-> info[6],
     region_id |-> info[7], snippet |-> info[8], score |-> Round4(score),
     vector_id |-> vector_id]

\* a loop that answers an unresolved id with an item without a row
RECURSIVE ItemsOf_KeepUnresolved(_, _, _)
ItemsOf_KeepUnresolved(ranked, id_to_info, den) ==
    IF ranked = <<>> THEN <<>>
    ELSE LET vid == Head(ranked)[1]
             info == IF vid \in DOMAIN id_to_info THEN id_to_info[vid]
                     ELSE <<0, "", 0, 0, "text", NULL, NULL, <<>> >>
         IN <<_row_to_item(info, <<Head(ranked)[2], den>>, vid)>>
            \o ItemsOf_KeepUnresolved(Tail(ranked), id_to_info, den)

\* for vid, score in ranked: info = id_to_info.get(vid); if not info:
\* continue; results.append(_row_to_item(...))
RECURSIVE ItemsOf(_, _, _)
ItemsOf(ranked, id_to_info, den) ==
    IF ranked = <<>> THEN <<>>
    ELSE LET vid == Head(ranked)[1]
             rest == ItemsOf(Tail(ranked), id_to_info, den)
         IN IF vid \in DOMAIN id_to_info
            THEN <<_row_to_item(id_to_info[vid], <<Head(ranked)[2], den>>, vid)>> \o rest
            ELSE rest

\* for r in kw_results: if r[9]: id_to_info[r[9]] = (r[0], ..., r[7])
KwInfo(kw_results) ==
    LET with_id == {n \in 1..Len(kw_results) : kw_results[n].vector_id # NULL}
    IN [vid \in {kw_results[n].vector_id : n \in with_id} |->
           LET r == kw_results[Max({n \in with_id : kw_results[n].vector_id = vid})]
           IN <<r.document_id, r.document_title, r.page_id, r.page_num,
                r.result_type, r.chunk_id, r.region_id, r.snippet>>]

\* for vid in vector_ids: if vid in id_to_info: continue;
\* id_to_info.update(_resolve_vector_ids(session, [vid]))
RECURSIVE ResolveEach(_, _, _)
ResolveEach(id_to_info, store, vector_ids) ==
    IF vector_ids = <<>> THEN id_to_info
    ELSE ResolveEach(IF Head(vector_ids) \in DOMAIN id_to_info THEN id_to_info
                     ELSE DictUpdate(id_to_info,
                                     _resolve_vector_ids(store, <<Head(vector_ids)>>)),
                     store, Tail(vector_ids))

KeywordMode(store, query, top_k) ==
    LET kw_results == keyword_search(store, query, top_k)
    IN [n \in 1..Len(kw_results) |->
           [kw_results[n] EXCEPT !.score = Round4(kw_results[n].score)]]

SemanticMode(store, vec_ranked, top_k, embed_fails) ==
    LET vec_results == vector_search(vec_ranked, top_k, embed_fails)
        vector_ids == [n \in 1..Len(vec_results) |-> vec_results[n][1]]
        id_to_info == _resolve_vector_ids(store, vector_ids)
    IN ItemsOf([n \in 1..Len(vec_results) |->
                   <<vec_results[n][1], vec_results[n][2][1]>>],
               id_to_info, MaxRank + 1)

HybridMode(store, vec_ranked, query, top_k, embed_fails) ==
    LET kw_results == keyword_search(store, query, top_k)
        vec_results == vector_search(vec_ranked, top_k, embed_fails)
        with_id == SelectSeq(kw_results, LAMBDA r : r.vector_id # NULL)
        kw_list == [n \in 1..Len(with_id) |-> <<with_id[n].vector_id, with_id[n].score>>]
        vec_list == [n \in 1..Len(vec_results) |-> <<vec_results[n][1], vec_results[n][2]>>]
        merged == rrf_merge(<<kw_list, vec_list>>, DEFAULT_K)
        top == Limit(merged, top_k)
        vector_ids == [n \in 1..Len(top) |-> top[n][1]]
        id_to_info == ResolveEach(KwInfo(kw_results), store, vector_ids)
    IN IF kw_list = <<>> /\ vec_list = <<>> THEN <<>>
       ELSE ItemsOf(top, id_to_info, RrfScale)

\* search(session, request)
search(store, vec_ranked, request, embed_fails) ==
    LET query == Strip(request.query)
    IN IF query = <<>> THEN <<>>
       ELSE IF request.mode = "keyword"
            THEN KeywordMode(store, query, request.top_k)
       ELSE IF request.mode = "semantic"
            THEN SemanticMode(store, vec_ranked, request.top_k, embed_fails)
       ELSE HybridMode(store, vec_ranked, query, request.top_k, embed_fails)

NoRequest == [query |-> <<>>, top_k |-> 1, mode |-> "none"]

\* what the vector store ranks highest for the query: ids, best first
VectorRankings == UNION {[1..n -> VectorIds] : n \in 0..MaxRank}

SearchInit ==
    srch \in [store : [text_chunks : SUBSET IndexedChunks, regions : SUBSET IndexedRegions],
              vec_ranked : VectorRankings,
              request : {NoRequest}, embed_failed : {FALSE},
              response : {<<>>}, pc : {"idle"}]

\* POST /search: one request is answered
Search(request, embed_fails) ==
    /\ srch.pc = "idle"
    /\ srch' = [srch EXCEPT !.request = request,
                            !.embed_failed = embed_fails,
                            !.response = search(srch.store, srch.vec_ranked,
                                                request, embed_fails),
                            !.pc = "done"]

SearchNext ==
    \E request \in [query : Queries, top_k : 1..MaxRank,
                    mode : {"keyword", "semantic", "hybrid"}],
       embed_fails \in BOOLEAN : Search(request, embed_fails)

SearchIdle ==
    srch = [store |-> [text_chunks |-> {}, regions |-> {}], vec_ranked |-> <<>>,
            request |-> NoRequest, embed_failed |-> FALSE, response |-> <<>>,
            pc |-> "off"]

(***************************************************************************)
(* core/memory_db.py, agent/chains.py, agent/tools/search_tools.py and     *)
(* api/routes/chat.py.  A text is a sequence of words, "" is <<>>, None is *)
(* NULL; a long string is a record of what it says and its length.         *)
(***************************************************************************)
SessionIds == {"s1", "s2"}

\* ChatRequest bodies
ChatBodies ==
    {[message |-> <<"A">>, selected_region_context |-> NULL],
     [message |-> <<"B">>, selected_region_context |-> <<"fig">>]}

Numeral ==
    <<"1", "2", "3", "4", "5", "6", "7", "8", "9", "10", "11", "12", "13",
      "14", "15", "16", "17", "18", "19", "20", "21", "22", "23", "24">>

EmptyChat == [sessions |-> {}, messages |-> <<>>]

\* the store after n messages were saved for session sid, one per tick
ChatWith(sid, n) ==
    [sessions |-> {sid},
     messages |-> [k \in 1..n |->
                      [id |-> k, session_id |-> sid,
                       role |-> IF k % 2 = 1 THEN "user" ELSE "model",
                       content |-> <<"m", Numeral[k]>>, timestamp |-> k]]]

\* the chat-history stores a behaviour starts from: one session, which has
\* seen more posts than a run loads
StoredChats == {ChatWith("s1", history_limit + 2)}

\* .order_by(ChatMessage.timestamp.asc()) over a set of rows
RECURSIVE OrderByTimestamp(_)
OrderByTimestamp(rows) ==
    IF rows = {} THEN <<>>
    ELSE LET r == CHOOSE x \in rows : \A y \in rows : x.timestamp <= y.timestamp
         IN <<r>> \o OrderByTimestamp(rows \ {r})

\* a query that forgets the filter on session_id
MessagesOf_AnySession(store, session_id) == Range(store.messages)

\* session.query(ChatMessage).filter(ChatMessage.session_id == session_id)
MessagesOf(store, session_id) ==
    {store.messages[n] : n \in {k \in 1..Len(store.messages) :
                                   store.messages[k].session_id = session_id}}

\* a string of len characters; the empty string; s[:n]
Str(says, len) == [says |-> says, len |-> len]

NoStr == Str("", 0)

Prefix(s, n) == [s EXCEPT !.len = Min2(@, n)]

\* types.Content(role=..., parts=[types.Part(text=...)])
TextContent(role, text_) ==
    [role |-> role, text |-> text_, function_calls |-> <<>>, name |-> "",
     result |-> NoStr]

_load_history(store, session_id, limit) ==
    IF session_id \notin store.sessions THEN <<>>
    ELSE LET messages == Limit(OrderByTimestamp(MessagesOf(store, session_id)), limit)
         IN [n \in 1..Len(messages) |->
                TextContent(IF messages[n].role = "user" THEN "user" ELSE "model",
                            messages[n].content)]

\* _save_message, the row stamped with the clock's time
_save_message(store, now, session_id, role, content) ==
    [sessions |-> store.sessions \cup {session_id},
     messages |-> Append(store.messages,
                         [id |-> Len(store.messages) + 1, session_id |-> session_id,
                          role |-> role, content |-> content, timestamp |-> now])]

\* f"Context (selected figure/region): {ctx}\n\nUser question: {message}"
UserContent(message, selected_region_context) ==
    IF selected_region_context # NULL /\ selected_region_context # <<>>
    THEN <<"Context:">> \o selected_region_context \o <<"User question:">> \o message
    ELSE message

\* x or default
OrElse(x, default) == IF x = NULL \/ x = <<>> THEN default ELSE x

\* services/web_search.py: the grounded answer for a query, or an exception
web_search(query) ==
    IF query = <<"q2">> THEN [raises |-> TRUE, text |-> NoStr, grounding_chunks |-> 0]
    ELSE IF query = <<>> THEN [raises |-> FALSE, text |-> NoStr, grounding_chunks |-> 0]
    ELSE [raises |-> FALSE, text |-> Str("web answer", 280), grounding_chunks |-> 2]

execute_web_search(query) ==
    LET answer == web_search(query)
    IN IF answer.raises THEN Str("Web search error: ...", 21)
       ELSE LET out == IF answer.text = NoStr THEN Str("No response.", 12) ELSE answer.text
            IN IF answer.grounding_chunks > 0
               THEN Str(out.says, out.len + 11 + 20 * Min2(answer.grounding_chunks, 5))
               ELSE out

\* a function call of the model: fc.name and fc.args
FunctionCall(name, query) == [name |-> name, args |-> [query |-> query]]

\* what generate_content may answer at a turn: an exception, a response
\* without candidates, a candidate without parts, a text, or function calls
Answer(kind, text_, function_calls) ==
    [kind |-> kind, text |-> text_, function_calls |-> function_calls]

FinalAnswers ==
    {Answer("exception", NULL, <<>>),
     Answer("no_candidates", NULL, <<>>),
     Answer("no_parts", NULL, <<>>),
     Answer("content", <<"T">>, <<>>),
     Answer("content", NULL, <<>>)}

\* the turns with function calls that a model makes, turn after turn
ToolScripts ==
    << [t \in 1..MAX_AGENT_STEPS |->
           IF t % 3 = 1 THEN Answer("content", <<"T">>, <<FunctionCall("web_search", <<"q1">>)>>)
           ELSE IF t % 3 = 2
                THEN Answer("content", NULL, <<FunctionCall("web_search", <<"q2">>),
                                               FunctionCall("web_search", NULL)>>)
           ELSE Answer("content", <<"T">>, <<FunctionCall("calculator", <<"q1">>)>>)],
       [t \in 1..MAX_AGENT_STEPS |->
           IF t % 2 = 1
           THEN Answer("content", NULL, <<FunctionCall("web_search", <<"q1">>),
                                          FunctionCall("web_search", <<"q1">>)>>)
           ELSE Answer("content", <<"T">>, <<FunctionCall("web_search", <<"q1">>),
                                             FunctionCall("search_local_index", <<"q1">>)>>)] >>

Answers(script, turn) == FinalAnswers \cup {ToolScripts[script][turn]}

\* the tool-calling turns the model makes depend on what it is asked
ScriptFor(body) == IF body.selected_region_context = NULL THEN 1 ELSE 2

\* the keywords run_agent passes to execute_search_local (chains.py:167) and
\* the parameters execute_search_local has (search_tools.py:56-60)
SearchLocalKeywords == {"top_k", "mode", "search_fn"}

SearchLocalParameters == {"query", "top_k", "search_fn"}

\* the summary of the local hits for a query, or of the failure to search
execute_search_local(query) ==
    IF query = <<>> THEN Str("Search error: ...", 60)
    ELSE IF query = <<"q1">> THEN Str("Local search results: ...", 420)
    ELSE Str("No results found in the local index.", 36)

\* args.get("query", "")
QueryOf(fc) == IF fc.args.query = NULL THEN <<>> ELSE fc.args.query

\* types.Content(role="tool", parts=[Part.from_function_response(...)])
ToolContent(name, result_str) ==
    [role |-> "tool", text |-> NULL, function_calls |-> <<>>, name |-> name,
     result |-> result_str]

\* a loop body that hands an exception of the tool call on to the caller
\* only for the local search, and records no source for the web search
ExecCall_NoWebSource(st, fc) ==
    IF fc.name = "search_local_index"
    THEN [st EXCEPT !.raised = TRUE]
    ELSE [st EXCEPT !.history = Append(@, ToolContent(fc.name, execute_web_search(QueryOf(fc))))]

\* the body of `for fc in function_calls`, lines 158-181; st holds the
\* locals history and sources, and whether the call was left by a TypeError
ExecCall(st, fc) ==
    IF fc.name = "search_local_index"
    THEN IF SearchLocalKeywords \subseteq SearchLocalParameters
         THEN LET result_str == execute_search_local(QueryOf(fc))
              IN [st EXCEPT !.sources = Append(@, [type |-> "local", query |-> QueryOf(fc),
                                                   summary |-> Prefix(result_str, 300)]),
                            !.history = Append(@, ToolContent(fc.name, result_str))]
         ELSE [st EXCEPT !.raised = TRUE]
    ELSE IF fc.name = "web_search"
    THEN LET result_str == execute_web_search(QueryOf(fc))
         IN [st EXCEPT !.sources = Append(@, [type |-> "web", query |-> QueryOf(fc),
                                              summary |-> Prefix(result_str, 300)]),
                       !.history = Append(@, ToolContent(fc.name, result_str))]
    ELSE [st EXCEPT !.history = Append(@, ToolContent(fc.name, Str("Unknown tool", 14)))]

\* for fc in function_calls
RECURSIVE ExecCalls(_, _)
ExecCalls(st, function_calls) ==
    IF function_calls = <<>> \/ st.raised THEN st
    ELSE ExecCalls(ExecCall(st, Head(function_calls)), Tail(function_calls))

NoAnswer == Answer("none", NULL, <<>>)

NoAgent ==
    [pc |-> "idle", session_id |-> NULL, user_content |-> <<>>, script |-> 1,
     history |-> <<>>, sources |-> <<>>, step |-> 0, response |-> NoAnswer,
     ret |-> <<>>, first_contents |-> <<>>, before |-> <<>>,
     capped |-> FALSE, ncalls |-> 0, nturns |-> 0]

NoView == [status |-> 0, session_id |-> "", messages |-> <<>>]

AgentInit ==
    /\ chat \in StoredChats
    /\ clock = history_limit + 3
    /\ agent = NoAgent
    /\ view = NoView
    /\ posts = 0

\* POST /chat/sessions: a session with a fresh uuid
CreateSession ==
    /\ agent.pc # "loop"
    /\ \E session_id \in SessionIds \ chat.sessions :
          chat' = [chat EXCEPT !.sessions = @ \cup {session_id}]
    /\ UNCHANGED <<clock, agent, view, posts>>

\* a run that falls back on a shared session when it is given none
RunAgentStart_SharedSession(body, session_id, script) ==
    LET sid == IF session_id # NULL THEN session_id[2] ELSE "s1"
        loaded == _load_history(chat, sid, history_limit)
        user_content == UserContent(body.message, body.selected_region_context)
    IN /\ agent' = [NoAgent EXCEPT
                       !.pc = "loop", !.session_id = session_id,
                       !.user_content = user_content, !.script = script,
                       !.history = Append(loaded, TextContent("user", user_content)),
                       !.before = IF session_id # NULL
                                  THEN OrderByTimestamp(MessagesOf(chat, session_id[2]))
                                  ELSE <<>>]
       /\ chat' = _save_message(chat, clock, sid, "user", user_content)
       /\ clock' = clock + 1

\* run_agent, lines 91-113: up to the loop
RunAgentStart(body, session_id, script) ==
    LET loaded == IF session_id # NULL
                  THEN _load_history(chat, session_id[2], history_limit)
                  ELSE <<>>
        user_content == UserContent(body.message, body.selected_region_context)
    IN /\ agent' = [NoAgent EXCEPT
                       !.pc = "loop", !.session_id = session_id,
                       !.user_content = user_content, !.script = script,
                       !.history = Append(loaded, TextContent("user", user_content)),
                       !.before = IF session_id # NULL
                                  THEN OrderByTimestamp(MessagesOf(chat, session_id[2]))
                                  ELSE <<>>]
       /\ IF session_id # NULL
          THEN /\ chat' = _save_message(chat, clock, session_id[2], "user", user_content)
               /\ clock' = clock + 1
          ELSE UNCHANGED <<chat, clock>>

\* POST /chat/{session_id}
ChatWithSession(session_id, body, script) ==
    /\ agent.pc # "loop"
    /\ posts < MaxPosts
    /\ posts' = posts + 1
    /\ IF session_id \notin chat.sessions
       THEN /\ view' = [status |-> 404, session_id |-> session_id, messages |-> <<>>]
            /\ UNCHANGED <<chat, clock, agent>>
       ELSE /\ RunAgentStart(body, Some(session_id), script)
            /\ UNCHANGED view

\* POST /chat
ChatStateless(body, script) ==
    /\ agent.pc # "loop"
    /\ posts < MaxPosts
    /\ posts' = posts + 1
    /\ RunAgentStart(body, NULL, script)
    /\ UNCHANGED view

\* return reply, sources; with _save_message(session_id, "model", reply)
\* before it where the code has it
Return(ag, reply, saves) ==
    /\ agent' = [ag EXCEPT !.pc = "returned", !.ret = <<reply, ag.sources>>]
    /\ IF saves /\ ag.session_id # NULL
       THEN /\ chat' = _save_message(chat, clock, ag.session_id[2], "model", reply)
            /\ clock' = clock + 1
       ELSE UNCHANGED <<chat, clock>>

\* one turn of `while step < MAX_AGENT_STEPS`, lines 115-181
AgentTurn(response) ==
    /\ agent.pc = "loop"
    /\ agent.step < MAX_AGENT_STEPS
    /\ LET ag == [agent EXCEPT !.step = @ + 1, !.nturns = @ + 1,
                               !.response = response,
                               !.first_contents = IF agent.step = 0 THEN agent.history
                                                  ELSE @]
       IN IF response.kind = "exception"
          THEN Return(ag, <<"Error:", "e">>, FALSE)
          ELSE IF response.kind = "no_candidates"
          THEN Return(ag, <<"No response from model.">>, FALSE)
          ELSE IF response.kind = "no_parts"
          THEN Return(ag, OrElse(response.text, <<"No response.">>), FALSE)
          ELSE IF response.function_calls = <<>>
          THEN Return(ag, OrElse(response.text, <<>>), TRUE)
          ELSE LET st == ExecCalls([history |-> Append(ag.history,
                                                       [role |-> "model", text |-> response.text,
                                                        function_calls |-> response.function_calls,
                                                        name |-> "", result |-> NoStr]),
                                    sources |-> ag.sources, raised |-> FALSE],
                                   response.function_calls)
               IN /\ agent' = [ag EXCEPT !.history = st.history, !.sources = st.sources,
                                         !.ncalls = @ + Len(response.function_calls),
                                         !.pc = IF st.raised THEN "raised" ELSE "loop"]
                  /\ UNCHANGED <<chat, clock>>
    /\ UNCHANGED <<view, posts>>

\* a loop that is only left after an eleventh turn
AgentCap_OffByOne ==
    /\ agent.pc = "loop"
    /\ agent.step > MAX_AGENT_STEPS
    /\ Return([agent EXCEPT !.capped = TRUE],
              OrElse(agent.response.text, <<"Stopped after max steps.">>), TRUE)
    /\ UNCHANGED <<view, posts>>

\* lines 183-187: the loop was left because step reached MAX_AGENT_STEPS
AgentCap ==
    /\ agent.pc = "loop"
    /\ agent.step >= MAX_AGENT_STEPS
    /\ Return([agent EXCEPT !.capped = TRUE],
              OrElse(agent.response.text, <<"Stopped after max steps.">>), TRUE)
    /\ UNCHANGED <<view, posts>>

\* GET /chat/sessions/{session_id}
get_session_history(session_id) ==
    /\ agent.pc # "loop"
    /\ view' = IF session_id \notin chat.sessions
               THEN [status |-> 404, session_id |-> session_id, messages |-> <<>>]
               ELSE LET messages == OrderByTimestamp(MessagesOf(chat, session_id))
                    IN [status |-> 200, session_id |-> session_id,
                        messages |-> [n \in 1..Len(messages) |->
                                         [role |-> messages[n].role,
                                          content |-> messages[n].content,
                                          timestamp |-> messages[n].timestamp]]]
    /\ UNCHANGED <<chat, clock, agent, posts>>

\* a turn, with whatever generate_content answers
AgentStep ==
    \E response \in Answers(agent.script, Min2(agent.step + 1, MAX_AGENT_STEPS)) :
        AgentTurn(response)

AgentNext ==
    \/ CreateSession
    \/ \E session_id \in SessionIds, body \in ChatBodies :
          ChatWithSession(session_id, body, ScriptFor(body))
    \/ \E body \in ChatBodies : ChatStateless(body, ScriptFor(body))
    \/ AgentStep
    \/ AgentCap
    \/ \E session_id \in SessionIds : get_session_history(session_id)

AgentIdle ==
    /\ chat = EmptyChat
    /\ clock = 0
    /\ agent = NoAgent
    /\ view = NoView
    /\ posts = 0

(***************************************************************************)
(* run_index.py: main over a directory of PDFs.                            *)
(***************************************************************************)
\* list(path.glob("**/*.pdf")): the files found, two of them possibly with
\* the same bytes
Directories == UNION {[1..n -> Files] : n \in 0..MaxCalls}

NoCli == [pc |-> "off", pdfs |-> <<>>, i |-> 0, logged |-> <<>>]

RunIndexInit ==
    /\ PipeInit
    /\ \E pdfs \in Directories : cli = [NoCli EXCEPT !.pc = "for", !.pdfs = pdfs, !.i = 1]

\* for p in pdfs: try: run_pipeline(p)
RunIndexCall ==
    /\ cli.pc = "for"
    /\ cli.i <= Len(cli.pdfs)
    /\ Begin(cli.pdfs[cli.i], TRUE)
    /\ cli' = [cli EXCEPT !.pc = "try"]

\* run_pipeline returned, or raised and `except Exception` logged it; on to
\* the next file
RunIndexNextFile ==
    /\ cli.pc = "try"
    /\ pc = "idle"
    /\ result.kind # "none"
    /\ cli' = [cli EXCEPT !.pc = "for", !.i = @ + 1, !.logged = Append(@, result)]
    /\ UNCHANGED pipeVars

\* logger.info("Done.")
RunIndexDone ==
    /\ cli.pc = "for"
    /\ cli.i > Len(cli.pdfs)
    /\ cli' = [cli EXCEPT !.pc = "done"]
    /\ UNCHANGED pipeVars

RunIndexNext ==
    \/ RunIndexCall
    \/ RunIndexNextFile
    \/ RunIndexDone
    \/ Render /\ UNCHANGED cli
    \/ SavePages /\ UNCHANGED cli
    \/ Feed /\ UNCHANGED cli
    \/ ConsumerGet /\ UNCHANGED cli
    \/ ConsumerTimeout /\ UNCHANGED cli
    \/ \E i \in 1..Max(Range(PageCounts)) : Detect(i) /\ UNCHANGED cli
    \/ Join /\ UNCHANGED cli
    \/ EmbedText /\ UNCHANGED cli
    \/ InsertChunks /\ UNCHANGED cli
    \/ InsertRegion /\ UNCHANGED cli
    \/ EmbedImages /\ UNCHANGED cli
    \/ SavePdf /\ UNCHANGED cli

CliIdle == cli = NoCli

(***************************************************************************)
(* core/vector_store.py: get_vector_store and InMemoryVectorStore.add,     *)
(* called by the threads of one process.  A thread can be switched out     *)
(* between any two statements.                                             *)
(***************************************************************************)
Threads == {1, 2}

\* the item a call passes at position j: its id, its vector, its metadata
ItemId(t, c, j) == 100 * t + 10 * c + j
VectorOf(id, width) == [x \in 1..width |-> id]
MetaOf(id) == [owner |-> id]
EmptyDict == [owner |-> 0]                  \* {}

\* the arguments of one add call: n_ids ids and n_vectors vectors of the
\* given width, with metadata None ("none"), one dict per id ("full") or one
\* dict fewer ("short")
AddArgs(t, c, n_ids, n_vectors, width, metadata) ==
    LET ids == [j \in 1..n_ids |-> ItemId(t, c, j)]
    IN [ids |-> ids,
        vectors |-> [j \in 1..n_vectors |-> VectorOf(ItemId(t, c, j), width)],
        metadata |-> IF metadata = "none" THEN NULL
                     ELSE IF metadata = "full"
                     THEN Some([j \in 1..n_ids |-> MetaOf(ids[j])])
                     ELSE Some([j \in 1..(n_ids - 1) |-> MetaOf(ids[j])])]

NoArgs == [ids |-> <<>>, vectors |-> <<>>, metadata |-> NULL]

\* InMemoryVectorStore.__init__
NewStore(dim) ==
    [dimension |-> dim, _ids |-> <<>>, _vectors |-> NULL, _metadata |-> <<>>]

NoStoreThread ==
    [pc |-> "idle", store |-> 0, args |-> NoArgs, meta |-> <<>>, arr |-> <<>>,
     read |-> <<>>, outcome |-> "none", before |-> NewStore(0)]

VecInit ==
    /\ _vector_store = NULL
    /\ instances = <<>>
    /\ threads = [t \in Threads |-> NoStoreThread]
    /\ adds = 0

\* a thread starts vec_store = get_vector_store(); vec_store.add(...)
CallAdd(t, args) ==
    /\ threads[t].pc = "idle"
    /\ adds < MaxAdds
    /\ adds' = adds + 1
    /\ threads' = [threads EXCEPT ![t] =
                      [NoStoreThread EXCEPT !.pc = "get", !.args = args]]
    /\ UNCHANGED <<_vector_store, instances>>

\* get_vector_store, line 191: if _vector_store is None
GetTest(t) ==
    /\ threads[t].pc = "get"
    /\ threads' = [threads EXCEPT ![t].pc =
                      IF _vector_store = NULL THEN "create" ELSE "return"]
    /\ UNCHANGED <<_vector_store, instances, adds>>

\* lines 192-212: the settings, then _vector_store = InMemoryVectorStore(dim)
GetCreate(t) ==
    /\ threads[t].pc = "create"
    /\ \E dim \in Dimensions :
          instances' = Append(instances, NewStore(dim))
    /\ _vector_store' = Some(Len(instances) + 1)
    /\ threads' = [threads EXCEPT ![t].pc = "return"]
    /\ UNCHANGED adds

\* line 213: return _vector_store
GetReturn(t) ==
    /\ threads[t].pc = "return"
    /\ threads' = [threads EXCEPT ![t].pc = "add",
                                  ![t].store = _vector_store[2]]
    /\ UNCHANGED <<_vector_store, instances, adds>>

\* np.array(vectors, dtype=np.float32) gives a 2-D array when all rows have
\* one length; arr.shape[1]
Shape1(vectors) == Len(vectors[1])

\* a call of add returns or raises
EndAdd(t, outcome) ==
    threads' = [threads EXCEPT ![t].pc = "idle", ![t].outcome = outcome]

\* add without the comparison of len(ids) and len(vectors)
AddCheck_NoLengthCheck(t) ==
    /\ threads[t].pc = "add"
    /\ LET self == instances[threads[t].store]
           a == threads[t].args
           given == IF a.metadata = NULL \/ a.metadata = Some(<<>>)
                    THEN [j \in 1..Len(a.ids) |-> EmptyDict]
                    ELSE a.metadata[2]
           meta == IF Len(given) # Len(a.ids)
                   THEN [j \in 1..Len(a.ids) |-> EmptyDict]
                   ELSE given
       IN IF a.ids = <<>> \/ a.vectors = <<>>
          THEN EndAdd(t, "returned")
          ELSE IF Shape1(a.vectors) # self.dimension
          THEN threads' = [threads EXCEPT ![t].pc = "idle",
                                          ![t].outcome = "raised",
                                          ![t].before = self]
          ELSE threads' = [threads EXCEPT ![t].pc = "extend_ids",
                                          ![t].meta = meta,
                                          ![t].arr = a.vectors,
                                          ![t].before = self]
    /\ UNCHANGED <<_vector_store, instances, adds>>

\* add, lines 67-77: the early return, the two raises, meta and arr
AddCheck(t) ==
    /\ threads[t].pc = "add"
    /\ LET self == instances[threads[t].store]
           a == threads[t].args
           given == IF a.metadata = NULL \/ a.metadata = Some(<<>>)
                    THEN [j \in 1..Len(a.ids) |-> EmptyDict]
                    ELSE a.metadata[2]
           meta == IF Len(given) # Len(a.ids)
                   THEN [j \in 1..Len(a.ids) |-> EmptyDict]
                   ELSE given
       IN IF a.ids = <<>> \/ a.vectors = <<>>
          THEN EndAdd(t, "returned")
          ELSE IF Len(a.ids) # Len(a.vectors) \/ Shape1(a.vectors) # self.dimension
          THEN threads' = [threads EXCEPT ![t].pc = "idle",
                                          ![t].outcome = "raised",
                                          ![t].before = self]
          ELSE threads' = [threads EXCEPT ![t].pc = "extend_ids",
                                          ![t].meta = meta,
                                          ![t].arr = a.vectors,
                                          ![t].before = self]
    /\ UNCHANGED <<_vector_store, instances, adds>>

\* line 78: self._ids.extend(ids)
ExtendIds(t) ==
    /\ threads[t].pc = "extend_ids"
    /\ instances' = [instances EXCEPT ![threads[t].store]._ids =
                        @ \o threads[t].args.ids]
    /\ threads' = [threads EXCEPT ![t].pc = "extend_metadata"]
    /\ UNCHANGED <<_vector_store, adds>>

\* line 79: self._metadata.extend(meta)
ExtendMetadata(t) ==
    /\ threads[t].pc = "extend_metadata"
    /\ instances' = [instances EXCEPT ![threads[t].store]._metadata =
                        @ \o threads[t].meta]
    /\ threads' = [threads EXCEPT ![t].pc = "test_vectors"]
    /\ UNCHANGED <<_vector_store, adds>>

\* line 80: if self._vectors is None
TestVectors(t) ==
    /\ threads[t].pc = "test_vectors"
    /\ threads' = [threads EXCEPT ![t].pc =
                      IF instances[threads[t].store]._vectors = NULL
                      THEN "set_vectors" ELSE "read_vectors"]
    /\ UNCHANGED <<_vector_store, instances, adds>>

\* line 81: self._vectors = arr
SetVectors(t) ==
    /\ threads[t].pc = "set_vectors"
    /\ instances' = [instances EXCEPT ![threads[t].store]._vectors =
                        Some(threads[t].arr)]
    /\ EndAdd(t, "returned")
    /\ UNCHANGED <<_vector_store, adds>>

\* line 83, right-hand side: np.vstack([self._vectors, arr])
ReadVectors(t) ==
    /\ threads[t].pc = "read_vectors"
    /\ threads' = [threads EXCEPT
                      ![t].pc = "stack_vectors",
                      ![t].read = instances[threads[t].store]._vectors[2]
                                    \o threads[t].arr]
    /\ UNCHANGED <<_vector_store, instances, adds>>

\* line 83, the assignment: self._vectors = ...
StackVectors(t) ==
    /\ threads[t].pc = "stack_vectors"
    /\ instances' = [instances EXCEPT ![threads[t].store]._vectors =
                        Some(threads[t].read)]
    /\ EndAdd(t, "returned")
    /\ UNCHANGED <<_vector_store, adds>>

ThreadStep(t) ==
    \/ GetTest(t)
    \/ GetCreate(t)
    \/ GetReturn(t)
    \/ AddCheck(t)
    \/ ExtendIds(t)
    \/ ExtendMetadata(t)
    \/ TestVectors(t)
    \/ SetVectors(t)
    \/ ReadVectors(t)
    \/ StackVectors(t)

\* two threads, each adding one or two items with their metadata
VecNext ==
    \/ \E t \in Threads, n \in 1..2 :
          CallAdd(t, AddArgs(t, adds + 1, n, n, CHOOSE dim \in Dimensions : TRUE, "full"))
    \/ \E t \in Threads : ThreadStep(t)

\* one thread, any arguments
AddNext ==
    \/ \E n_ids \in 0..2, n_vectors \in 0..2,
          width \in {dim + x : dim \in Dimensions, x \in {0, 1}},
          metadata \in {"none", "full", "short"} :
          CallAdd(1, AddArgs(1, adds + 1, n_ids, n_vectors, width, metadata))
    \/ ThreadStep(1)

VecIdle == VecInit

(***************************************************************************)
(* text_processor: chunk_text and chunk_ocr_results applied to given texts.*)
(***************************************************************************)
\* the texts tried: up to MaxText characters, letters and blanks
Texts == UNION {[1..n -> {"a", "b", " "}] : n \in 0..MaxText}

\* the (chunk_size, overlap) pairs tried, overlap < chunk_size
ChunkSizes == {<<1, 0>>, <<2, 0>>, <<2, 1>>, <<3, 1>>, <<3, 2>>}

NoChunking == [text |-> <<>>, chunk_size |-> 1, overlap |-> 0, pc |-> "off",
               chunks |-> <<>>, again |-> <<>>, rows |-> <<>>]

ChunkInit ==
    \E text \in Texts, so \in ChunkSizes :
       chk = [NoChunking EXCEPT !.text = text, !.chunk_size = so[1],
                                !.overlap = so[2], !.pc = "start"]

\* chunk_text(text, chunk_size, overlap)
ChunkText ==
    /\ chk.pc = "start"
    /\ chk' = [chk EXCEPT !.chunks = chunk_text(chk.text, chk.chunk_size, chk.overlap),
                          !.pc = "chunked"]

\* the same call once more
ChunkTextAgain ==
    /\ chk.pc = "chunked"
    /\ chk' = [chk EXCEPT !.again = chunk_text(chk.text, chk.chunk_size, chk.overlap),
                          !.pc = "rechunked"]

\* chunk_ocr_results on a document of two pages: the text, and the text
\* read backwards
ChunkOcrResults ==
    /\ chk.pc = "rechunked"
    /\ chk' = [chk EXCEPT
                 !.rows = chunk_ocr_results(<< <<1, 1, chk.text>>,
                                               <<2, 1, Reverse(chk.text)>> >>,
                                            chk.chunk_size, chk.overlap),
                 !.pc = "done"]

ChunkNext == ChunkText \/ ChunkTextAgain \/ ChunkOcrResults

ChunkIdle == chk = NoChunking

(***************************************************************************)
(* run_pipeline, lines 150-198 on their own: the OCR stage (producer,      *)
(* consumer thread, join) and the pool of detection workers.               *)
(***************************************************************************)
\* the steps of run_pipeline up to the return from join()
StageNext ==
    \/ \E f \in Files, owns \in BOOLEAN : Begin(f, owns)
    \/ Render
    \/ SavePages
    \/ Feed
    \/ ConsumerGet
    \/ ConsumerTimeout
    \/ \E i \in 1..Max(Range(PageCounts)) : Detect(i)
    \/ Join

\* the page counts of the documents given to the detection pool
PoolPages == {1, 6, 7}

NoPool == [pc |-> "off", total_pages |-> 0, futures |-> <<>>]

\* with ThreadPoolExecutor(max_workers=5) as executor
PoolInit ==
    \E n \in PoolPages :
       pool = [pc |-> "submit", total_pages |-> n,
               futures |-> [i \in 1..n |-> "new"]]

\* the detection calls in flight: the futures a worker is running
InFlight == {i \in 1..pool.total_pages : pool.futures[i] = "running"}

\* executor.submit(_process_page_wrapper, i) for the next page
Submit ==
    /\ pool.pc = "submit"
    /\ LET i == CHOOSE i \in 1..pool.total_pages :
                   /\ pool.futures[i] = "new"
                   /\ \A j \in 1..(i - 1) : pool.futures[j] # "new"
       IN pool' = [pool EXCEPT
                     !.futures[i] = "pending",
                     !.pc = IF i = pool.total_pages THEN "as_completed" ELSE @]

\* a worker takes a submitted call, with no bound on the workers
WorkerStart_Unbounded(i) ==
    /\ i \in 1..pool.total_pages
    /\ pool.futures[i] = "pending"
    /\ pool' = [pool EXCEPT !.futures[i] = "running"]

\* a worker thread takes a submitted call: the executor has at most
\* max_workers threads, each running one call at a time
WorkerStart(i) ==
    /\ i \in 1..pool.total_pages
    /\ pool.futures[i] = "pending"
    /\ Cardinality(InFlight) < max_workers
    /\ pool' = [pool EXCEPT !.futures[i] = "running"]

\* _process_page_wrapper returns (idx, regions) or (idx, [])
WorkerReturn(i) ==
    /\ i \in 1..pool.total_pages
    /\ pool.futures[i] = "running"
    /\ pool' = [pool EXCEPT !.futures[i] = "done"]

\* the as_completed loop has seen every future; the with block is left
PoolExit ==
    /\ pool.pc = "as_completed"
    /\ \A i \in 1..pool.total_pages : pool.futures[i] = "done"
    /\ pool' = [pool EXCEPT !.pc = "done"]

PoolNext ==
    \/ Submit
    \/ \E i \in 1..Max(PoolPages) : WorkerStart(i)
    \/ \E i \in 1..Max(PoolPages) : WorkerReturn(i)
    \/ PoolExit

PoolIdle == pool = NoPool

(***************************************************************************)
(* Specifications.                                                         *)
(***************************************************************************)
PipeIdle ==
    /\ settings = [ocr_batch_size |-> 1, ocr_max_queue_size |-> 1]
    /\ db = EmptyStore
    /\ sess = EmptyStore
    /\ vec_ids = <<>>
    /\ storage = {}
    /\ pc = "idle"
    /\ run = NoRun
    /\ cons = NoThread
    /\ result = NoResult
    /\ calls = 0

\* the ingest pipeline
Init ==
    PipeInit /\ FtsInit /\ RetryInit /\ RrfIdle /\ SearchIdle /\
    AgentIdle /\ CliIdle /\ VecIdle /\ ChunkIdle /\
    PoolIdle

Next ==
    PipeNext
    /\ UNCHANGED <<ftsVars, retryVars, rrfVars, searchVars, agentVars, cliVars, vecVars,
                 chunkVars, poolVars>>

Spec == Init /\ [][Next]_vars

\* SQL statements on text_chunks
InitFts ==
    PipeIdle /\ FtsInit /\ RetryInit /\ RrfIdle /\ SearchIdle /\
    AgentIdle /\ CliIdle /\ VecIdle /\ ChunkIdle /\
    PoolIdle

NextFts ==
    FtsNext
    /\ UNCHANGED <<pipeVars, retryVars, rrfVars, searchVars, agentVars, cliVars, vecVars,
                 chunkVars, poolVars>>

SpecFts == InitFts /\ [][NextFts]_vars

\* calls of the embedder
InitRetry ==
    PipeIdle /\ FtsInit /\ RetryInit /\ RrfIdle /\ SearchIdle /\
    AgentIdle /\ CliIdle /\ VecIdle /\ ChunkIdle /\
    PoolIdle

NextRetry ==
    RetryNext
    /\ UNCHANGED <<pipeVars, ftsVars, rrfVars, searchVars, agentVars, cliVars, vecVars,
                 chunkVars, poolVars>>

SpecRetry == InitRetry /\ [][NextRetry]_vars

\* calls of rrf_merge
InitRrf ==
    PipeIdle /\ FtsInit /\ RetryInit /\ RrfInit /\ SearchIdle /\
    AgentIdle /\ CliIdle /\ VecIdle /\ ChunkIdle /\
    PoolIdle

NextRrf ==
    RrfNext
    /\ UNCHANGED <<pipeVars, ftsVars, retryVars, searchVars, agentVars, cliVars, vecVars,
                 chunkVars, poolVars>>

SpecRrf == InitRrf /\ [][NextRrf]_vars

\* search requests
InitSearch ==
    PipeIdle /\ FtsInit /\ RetryInit /\ RrfIdle /\ SearchInit /\
    AgentIdle /\ CliIdle /\ VecIdle /\ ChunkIdle /\
    PoolIdle

NextSearch ==
    SearchNext
    /\ UNCHANGED <<pipeVars, ftsVars, retryVars, rrfVars, agentVars, cliVars, vecVars,
                 chunkVars, poolVars>>

SpecSearch == InitSearch /\ [][NextSearch]_vars

\* chat requests and the agent's runs
InitAgent ==
    PipeIdle /\ FtsInit /\ RetryInit /\ RrfIdle /\ SearchIdle /\
    AgentInit /\ CliIdle /\ VecIdle /\ ChunkIdle /\
    PoolIdle

NextAgent ==
    AgentNext
    /\ UNCHANGED <<pipeVars, ftsVars, retryVars, rrfVars, searchVars, cliVars, vecVars,
                 chunkVars, poolVars>>

SpecAgent == InitAgent /\ [][NextAgent]_vars

\* the same, a call of run_agent never being left waiting: generate_content
\* and the tools answer, and the interpreter goes on
SpecAgentFair ==
    /\ InitAgent
    /\ [][NextAgent]_vars
    /\ WF_agentVars(AgentStep)
    /\ WF_agentVars(AgentCap)

\* run-index over a directory
InitRunIndex ==
    RunIndexInit /\ FtsInit /\ RetryInit /\ RrfIdle /\ SearchIdle /\ AgentIdle /\
    VecIdle /\ ChunkIdle /\
    PoolIdle

NextRunIndex ==
    RunIndexNext
    /\ UNCHANGED <<ftsVars, retryVars, rrfVars, searchVars, agentVars, vecVars,
                 chunkVars, poolVars>>

SpecRunIndex == InitRunIndex /\ [][NextRunIndex]_vars

\* two threads that use the vector store at the same time
InitVecStore ==
    PipeIdle /\ FtsInit /\ RetryInit /\ RrfIdle /\ SearchIdle /\
    AgentIdle /\ CliIdle /\ VecInit /\ ChunkIdle /\
    PoolIdle

NextVecStore ==
    VecNext
    /\ UNCHANGED <<pipeVars, ftsVars, retryVars, rrfVars, searchVars, agentVars,
                   cliVars, chunkVars, poolVars>>

SpecVecStore == InitVecStore /\ [][NextVecStore]_vars

\* add calls one after another, with any arguments
NextVecAdd ==
    AddNext
    /\ UNCHANGED <<pipeVars, ftsVars, retryVars, rrfVars, searchVars, agentVars,
                   cliVars, chunkVars, poolVars>>

SpecVecAdd == InitVecStore /\ [][NextVecAdd]_vars

\* chunk_text and chunk_ocr_results on one text
InitChunk ==
    PipeIdle /\ FtsInit /\ RetryInit /\ RrfIdle /\ SearchIdle /\
    AgentIdle /\ CliIdle /\ VecIdle /\ ChunkInit /\
    PoolIdle

NextChunk ==
    ChunkNext
    /\ UNCHANGED <<pipeVars, ftsVars, retryVars, rrfVars, searchVars, agentVars,
                   cliVars, vecVars, poolVars>>

SpecChunk == InitChunk /\ [][NextChunk]_vars

\* the OCR stage of run_pipeline, every thread being scheduled again and
\* again: the producer, the consumer thread (a queue read returns an item
\* or times out), the detection futures and the join
NextOcrStage ==
    StageNext
    /\ UNCHANGED <<ftsVars, retryVars, rrfVars, searchVars, agentVars, cliVars,
                   vecVars, chunkVars, poolVars>>

SpecOcrStageFair ==
    /\ Init
    /\ [][NextOcrStage]_vars
    /\ WF_pipeVars(Feed)
    /\ WF_pipeVars(ConsumerGet)
    /\ WF_pipeVars(ConsumerTimeout)
    /\ WF_pipeVars(\E i \in 1..Max(Range(PageCounts)) : Detect(i))
    /\ WF_pipeVars(Join)

\* the OCR stage on the small documents, or the detection pool on its own
\* for a document of many pages
InitBatching ==
    /\ FtsInit /\ RetryInit /\ RrfIdle /\ SearchIdle /\ AgentIdle /\ CliIdle
    /\ VecIdle /\ ChunkIdle
    /\ \/ PipeInit /\ PoolIdle
       \/ PipeIdle /\ PoolInit

NextBatching ==
    /\ \/ PoolIdle /\ StageNext /\ UNCHANGED poolVars
       \/ PoolNext /\ UNCHANGED pipeVars
    /\ UNCHANGED <<ftsVars, retryVars, rrfVars, searchVars, agentVars, cliVars,
                   vecVars, chunkVars>>

SpecBatching == InitBatching /\ [][NextBatching]_vars

(***************************************************************************)
(* Properties of the ingest pipeline.                                      *)
(***************************************************************************)
AllRows(store) ==
    [documents |-> store.documents, pages |-> store.pages,
     text_chunks |-> store.text_chunks, regions |-> store.regions]

C2_ExactlyOnceOcrResult ==
    (pc = "join" /\ cons.pc \in {"done", "dead"}) =>
        \A i \in 1..run.npages :
            Cardinality({n \in 1..Len(run.ocr_results_list) :
                            run.ocr_results_list[n][1] = run.page_ids[i]}) = 1

\* C3: a run_pipeline call that raises while it owns the session leaves no
\* Document row for the file and no Page, TextChunk or Region row of the
\* document, in the session or in the committed store.
C3_FailureAtomicity ==
    (pc = "idle" /\ result.kind = "raised" /\ result.owns) =>
        \A store \in {db, sess} :
            /\ \A d \in store.documents : d.file_hash # <<"sha256", result.file>>
            /\ \A d \in store.documents : d.id # result.value
            /\ \A r \in store.pages \cup store.text_chunks \cup store.regions :
                   r.document_id # result.value

C3_Witness ==
    /\ pc = "idle"
    /\ result.kind = "raised"
    /\ result.owns
    /\ result.step = "embed_images"
    /\ result.value > 0

\* C4: every committed TextChunk or Region row with a vector_id has an entry
\* with that id in the vector store, and the id is chunk_{document_id}_
\* {page_id}_{chunk_index} resp. region_{document_id}_{region_id}.
C4_VectorIdsPresent ==
    /\ \A c \in db.text_chunks :
          c.vector_id # NULL =>
              /\ \E n \in 1..Len(vec_ids) : vec_ids[n] = c.vector_id
              /\ c.vector_id = <<"chunk", c.document_id, c.page_id, c.chunk_index>>
    /\ \A r \in db.regions :
          r.vector_id # NULL =>
              /\ \E n \in 1..Len(vec_ids) : vec_ids[n] = r.vector_id
              /\ r.vector_id = <<"region", r.document_id, r.id>>

C4_Witness ==
    /\ \E c \in db.text_chunks : c.vector_id # NULL
    /\ \E r \in db.regions : r.vector_id # NULL
    /\ result.kind = "raised"

\* C6: every Region row the pipeline writes has 0 <= box_y0 < box_y1 <= page
\* height and 0 <= box_x0 < box_x1 <= page width.
C6_RegionBoxInsideRaster ==
    \A r \in sess.regions \cup db.regions :
        /\ 0 <= r.box_y0 /\ r.box_y0 < r.box_y1 /\ r.box_y1 <= PageSize
        /\ 0 <= r.box_x0 /\ r.box_x0 < r.box_x1 /\ r.box_x1 <= PageSize

\* C7: a failing OCR call or a per-page OCR error leaves the affected pages
\* with empty text, a raising detector leaves the page with an empty region
\* list, the other pages keep their text and regions, and no run_pipeline
\* call is aborted by either: a call raises only at a fatal step.
FatalSteps ==
    {"render", "insert_document", "save_page", "embed_text", "save_crop",
     "embed_images", "save_pdf"}

PageRow(store, page_id) == CHOOSE p \in store.pages : p.id = page_id

C7_ExtractionFailuresDegrade ==
    /\ result.kind = "raised" => result.step \in FatalSteps
    /\ pc \in {"embed_text", "insert_chunks", "regions", "embed_images", "save_pdf"} =>
         \A i \in 1..run.npages :
            /\ run.ocrOut[i] \in {"err", "raise"} =>
                   PageRow(sess, run.page_ids[i]).ocr_text = <<>>
            /\ run.ocrOut[i] = "ok" =>
                   PageRow(sess, run.page_ids[i]).ocr_text = PageText(run.file, i)
            /\ run.detOut[i] = "raise" => run.vision_results[i] = <<>>
            /\ run.detOut[i] = "ok" =>
                   Len(run.vision_results[i]) = Len(DetectorAnswer(Raster(run.file, i)))
            /\ run.detOut[i] # "none"
    /\ (result.kind = "returned" /\ result.step = "done" /\ pc = "idle") =>
         \E d \in db.documents : d.id = result.value

C7_Witness ==
    /\ pc = "save_pdf"
    /\ \E i, j \in 1..run.npages :
          /\ i # j
          /\ run.ocrOut[i] = "raise"
          /\ run.ocrOut[j] = "ok"
          /\ run.detOut[i] = "raise"
          /\ run.detOut[j] = "ok"
          /\ run.vision_results[j] # <<>>

(***************************************************************************)
(* Properties of the FTS index.                                            *)
(***************************************************************************)
\* C5: after any sequence of inserts, updates and deletes of TextChunk rows
\* the index text_chunks_fts holds exactly one row per existing TextChunk,
\* with rowid equal to the chunk id and the chunk's current text, and no row
\* for a deleted chunk.
C5_FtsInLockstep ==
    /\ BagToSet(text_chunks_fts) = {<<c.id, c.text>> : c \in text_chunks}
    /\ \A e \in BagToSet(text_chunks_fts) : CopiesIn(e, text_chunks_fts) = 1

C5_Witness ==
    /\ fts_ops = {"insert", "update", "delete"}
    /\ Cardinality(text_chunks) >= 2
    /\ \E c \in text_chunks : c.id > Cardinality(text_chunks)

RankIn(lst, id) == CHOOSE r \in 1..Len(lst) : lst[r][1] = id

InList(lst, id) == \E r \in 1..Len(lst) : lst[r][1] = id

\* the sum, over the first n input lists containing id, of 1 / (60 + r)
RECURSIVE ExpectedScore(_, _, _)
ExpectedScore(lists, n, id) ==
    IF n = 0 THEN 0
    ELSE ExpectedScore(lists, n - 1, id)
         + (IF InList(lists[n], id) THEN RrfScale \div (60 + RankIn(lists[n], id)) ELSE 0)

\* where id first appears: <<list, rank>> of the first list containing it
FirstAppearance(lists, id) ==
    LET l == CHOOSE i \in 1..Len(lists) :
                 InList(lists[i], id) /\ \A j \in 1..(i - 1) : ~InList(lists[j], id)
    IN <<l, RankIn(lists[l], id)>>

Before(p, q) == p[1] < q[1] \/ (p[1] = q[1] /\ p[2] < q[2])

\* C9: rrf_merge gives each id the sum, over the input lists containing it, of
\* 1/(60 + r), r its 1-based rank in the list; it returns every id once, in
\* non-increasing score order, ids of equal score in the order of their first
\* appearance in the input lists (first list first, then by rank).
C9_RrfScoresAndOrder ==
    rrf.pc = "done" =>
        LET lists == rrf.result_lists
            out == rrf.out
            ids == {id \in RrfIds : \E i \in 1..Len(lists) : InList(lists[i], id)}
        IN /\ {out[n][1] : n \in 1..Len(out)} = ids
           /\ Len(out) = Cardinality(ids)
           /\ \A n \in 1..Len(out) :
                  out[n][2] = ExpectedScore(lists, Len(lists), out[n][1])
           /\ \A m, n \in 1..Len(out) :
                  m < n =>
                     /\ out[m][2] >= out[n][2]
                     /\ out[m][2] = out[n][2] =>
                            Before(FirstAppearance(lists, out[m][1]),
                                   FirstAppearance(lists, out[n][1]))

C9_Witness ==
    /\ rrf.pc = "done"
    /\ Len(rrf.result_lists) = 2
    /\ Len(rrf.out) >= 3
    /\ \E n \in 1..Len(rrf.out) :
          InList(rrf.result_lists[1], rrf.out[n][1]) /\ InList(rrf.result_lists[2], rrf.out[n][1])
    /\ \E m, n \in 1..Len(rrf.out) :
          /\ m < n
          /\ rrf.out[m][2] = rrf.out[n][2]
          /\ ~InList(rrf.result_lists[2], rrf.out[m][1])
          /\ ~InList(rrf.result_lists[1], rrf.out[n][1])

(***************************************************************************)
(* Properties of the search coordinator.                                   *)
(***************************************************************************)
\* the ids the vector store returned for the request
HitIds ==
    IF srch.embed_failed THEN {}
    ELSE {srch.vec_ranked[n] : n \in 1..Min2(srch.request.top_k, Len(srch.vec_ranked))}

RowVectorIds ==
    {r.vector_id : r \in srch.store.text_chunks \cup srch.store.regions}

\* C10: in semantic and hybrid mode no returned item has a vector_id that
\* matches no TextChunk or Region row, at most top_k items are returned, and
\* every item carries the document, page and chunk/region fields of the row
\* that bears its vector_id.
C10_UnknownHitsDropped ==
    (srch.pc = "done" /\ srch.request.mode \in {"semantic", "hybrid"}) =>
        /\ Len(srch.response) <= srch.request.top_k
        /\ \A n \in 1..Len(srch.response) :
              LET item == srch.response[n]
              IN \/ \E tc \in srch.store.text_chunks :
                       /\ tc.vector_id = item.vector_id
                       /\ item.result_type = "text"
                       /\ item.document_id = tc.document_id
                       /\ item.page_id = tc.page_id
                       /\ item.chunk_id = <<"some", tc.id>>
                       /\ item.region_id = NULL
                 \/ \E reg \in srch.store.regions :
                       /\ reg.vector_id = item.vector_id
                       /\ item.result_type = "image"
                       /\ item.document_id = reg.document_id
                       /\ item.page_id = reg.page_id
                       /\ item.region_id = <<"some", reg.id>>
                       /\ item.chunk_id = NULL

C10_Witness ==
    /\ srch.pc = "done"
    /\ srch.request.mode = "hybrid"
    /\ <<"chunk", 9, 9, 0>> \in HitIds
    /\ \E vid \in HitIds : vid # <<"chunk", 9, 9, 0>> /\ vid \notin RowVectorIds
    /\ \E n \in 1..Len(srch.response) : srch.response[n].vector_id \in HitIds
    /\ \E n \in 1..Len(srch.response) : srch.response[n].result_type = "image"

\* what identifies a result: its type and its chunk or region
ItemKey(item) == <<item.result_type, item.chunk_id, item.region_id>>

\* the rows keyword search returns for the request
KeywordHits ==
    keyword_search(srch.store, Strip(srch.request.query), srch.request.top_k)

\* the distinct items that fusion ranks: the keyword hits, and the vector
\* hits that are not a keyword hit
FusedItems ==
    {ItemKey(KeywordHits[n]) : n \in 1..Len(KeywordHits)}
    \cup {<<"vector", vid>> : vid \in
            {v \in HitIds : \A n \in 1..Len(KeywordHits) : KeywordHits[n].vector_id # v}}

\* C11: in hybrid mode, whenever the distinct fused items are at most top_k,
\* every item keyword search returns for the query is in the response, also
\* a TextChunk or Region whose vector_id is NULL or is not in the vector
\* store.
C11_HybridIsUnion ==
    (srch.pc = "done" /\ srch.request.mode = "hybrid"
        /\ Cardinality(FusedItems) <= srch.request.top_k) =>
        \A n \in 1..Len(KeywordHits) :
            \E m \in 1..Len(srch.response) :
                ItemKey(srch.response[m]) = ItemKey(KeywordHits[n])

(***************************************************************************)
(* Properties of the agent and of the chat sessions.                       *)
(***************************************************************************)
\* the run has ended: run_agent returned or raised
AgentEnded == agent.pc \in {"returned", "raised"}

\* the places in the conversation of the model's turns with tool calls
ToolTurns ==
    {n \in (Len(agent.first_contents) + 1)..Len(agent.history) :
        agent.history[n].role = "model" /\ agent.history[n].function_calls # <<>>}

\* C12: run_agent always terminates after at most 10 calls of the generative
\* model, whatever the model answers: it returns at the first turn without
\* tool calls, with that turn's text as the reply, and otherwise stops once
\* 10 turns were made.
C12_AgentTerminates ==
    /\ [](agent.nturns <= 10)
    /\ [](agent.pc = "loop" => agent.nturns = agent.step)
    /\ []((agent.pc = "returned" /\ ~agent.capped) =>
            /\ agent.response.function_calls = <<>>
            /\ Cardinality(ToolTurns) = agent.nturns - 1
            /\ (agent.response.kind = "content" /\ agent.response.text # NULL) =>
                   agent.ret[1] = agent.response.text)
    /\ []((agent.pc = "returned" /\ agent.capped) => agent.nturns = 10)
    /\ (agent.pc = "loop" ~> AgentEnded)

C12_Witness ==
    /\ agent.pc = "returned"
    /\ agent.nturns = 7
    /\ agent.response.kind = "content"
    /\ agent.ret[1] = <<"T">>
    /\ Len(agent.sources) > 3

\* C13: when the 10th turn still has tool calls, run_agent returns the last
\* turn's text together with a cap-reached indicator: what it returns is
\* never what a run returns whose last turn had no tool calls.
C13_CapIndicated ==
    (agent.pc = "returned" /\ agent.capped) =>
        /\ agent.ret[1] = OrElse(agent.response.text, <<"Stopped after max steps.">>)
        /\ \/ Len(agent.ret) > 2
           \/ \A a \in FinalAnswers :
                 a.kind = "content" => agent.ret[1] # OrElse(a.text, <<>>)

\* the tool calls of the model's turns in a conversation, in call order
RECURSIVE CallsIn(_)
CallsIn(contents) ==
    IF contents = <<>> THEN <<>>
    ELSE (IF Head(contents).role = "model" THEN Head(contents).function_calls ELSE <<>>)
         \o CallsIn(Tail(contents))

\* the tool calls the model made in the run
CallsMade == CallsIn(SubSeq(agent.history, Len(agent.first_contents) + 1, Len(agent.history)))

\* the tool-response messages of the run, in order
ToolResponses ==
    SelectSeq(SubSeq(agent.history, Len(agent.first_contents) + 1, Len(agent.history)),
              LAMBDA c : c.role = "tool")

SourceType(name) ==
    IF name = "search_local_index" THEN "local"
    ELSE IF name = "web_search" THEN "web" ELSE "none"

\* C14: in every run each tool call of the model appends exactly one entry
\* to sources, in call order, of type "local" for search_local_index and
\* "web" for web_search, with the call's query and a summary of at most 300
\* characters; the list has as many entries as tool calls were made, and
\* each call got a tool-response message keyed by the tool name.
C14_SourcePerToolCall ==
    (agent.pc \in {"loop", "returned", "raised"} /\ agent.nturns > 0) =>
        /\ Len(CallsMade) = agent.ncalls
        /\ Len(agent.sources) = agent.ncalls
        /\ \A n \in 1..Len(agent.sources) :
              n <= Len(CallsMade) =>
                 /\ agent.sources[n].type = SourceType(CallsMade[n].name)
                 /\ agent.sources[n].query = QueryOf(CallsMade[n])
                 /\ agent.sources[n].summary.len <= 300
        /\ Len(ToolResponses) = agent.ncalls
        /\ \A n \in 1..Len(ToolResponses) :
              n <= Len(CallsMade) => ToolResponses[n].name = CallsMade[n].name

\* the text a failed execution of a tool leaves
ErrorTexts == {"Search error: ...", "Web search error: ..."}

\* C15: a failing tool never aborts the agent: run_agent does not raise out
\* of a call of search_local_index or web_search, the error text is that
\* call's tool response, and the loop goes on to the next turn.
C15_ToolFailureContained ==
    /\ agent.pc # "raised"
    /\ (agent.pc \in {"loop", "returned"} /\ agent.nturns > 0) =>
          \A n \in 1..Len(CallsMade) :
              (CallsMade[n].name = "web_search" /\ web_search(QueryOf(CallsMade[n])).raises) =>
                  /\ n <= Len(ToolResponses)
                  /\ ToolResponses[n].result.says \in ErrorTexts

\* the last n elements of a sequence
LastN(seq, n) == SubSeq(seq, Max2(1, Len(seq) - n + 1), Len(seq))

\* a stored message as the model is given it
AsContent(msg) == TextContent(IF msg.role = "user" THEN "user" ELSE "model", msg.content)

\* C16: with a session_id, the history sent to the model at the first turn
\* is the 20 most recent messages of the session in ascending time order
\* (all of them when there are 20 or fewer), followed by the new user
\* message.
C16_HistoryIsMostRecent ==
    (agent.session_id # NULL /\ agent.nturns > 0) =>
        LET recent == LastN(agent.before, history_limit)
        IN agent.first_contents =
              [n \in 1..Len(recent) |-> AsContent(recent[n])]
              \o <<TextContent("user", agent.user_content)>>

\* the rows of a session in the order they were saved
RowsOf(session_id) == SelectSeq(chat.messages, LAMBDA m : m.session_id = session_id)

\* C17: a call of run_agent with a session_id that returns a reply has
\* appended exactly two messages to the session, on every return path: the
\* user message and then the final model reply; nothing of the intermediate
\* turns is persisted.
C17_TwoMessagesPerRun ==
    (agent.pc = "returned" /\ agent.session_id # NULL) =>
        LET rows == RowsOf(agent.session_id[2])
            n == Len(agent.before)
        IN /\ Len(rows) = n + 2
           /\ SubSeq(rows, 1, n) = agent.before
           /\ rows[n + 1].role = "user" /\ rows[n + 1].content = agent.user_content
           /\ rows[n + 2].role = "model" /\ rows[n + 2].content = agent.ret[1]

\* C18: called without a session_id, run_agent neither reads nor writes the
\* chat-history store: no ChatSession or ChatMessage row is created or
\* changed during the run, and the conversation sent to the model starts
\* with the current user message only.
C18_StatelessWithoutSession ==
    /\ []((agent.session_id = NULL /\ agent.nturns > 0) =>
              agent.first_contents = <<TextContent("user", agent.user_content)>>)
    /\ [][(agent'.session_id = NULL /\ (agent.pc = "loop" \/ agent'.pc = "loop")) =>
              chat' = chat]_vars

C18_Witness ==
    /\ agent.pc = "returned"
    /\ agent.session_id = NULL
    /\ agent.nturns > 2
    /\ Len(agent.sources) > 0
    /\ Len(chat.messages) > history_limit + 2

\* C19: chat sessions are isolated: the history returned for a session holds
\* only messages saved for that session, in ascending timestamp order, and
\* all of them when it is returned; the history loaded for a run holds only
\* messages of the run's session; and a run saves its messages under its
\* own session only.
C19_SessionsIsolated ==
    /\ [](view.status = 200 =>
            /\ \A n \in 1..Len(view.messages) :
                  \E k \in 1..Len(chat.messages) :
                      /\ chat.messages[k].session_id = view.session_id
                      /\ chat.messages[k].timestamp = view.messages[n].timestamp
                      /\ chat.messages[k].content = view.messages[n].content
                      /\ chat.messages[k].role = view.messages[n].role
            /\ \A m, n \in 1..Len(view.messages) :
                  m < n => view.messages[m].timestamp < view.messages[n].timestamp)
    /\ []((agent.session_id # NULL /\ agent.nturns > 0) =>
            \A n \in 1..(Len(agent.first_contents) - 1) :
                \E k \in 1..Len(chat.messages) :
                    /\ chat.messages[k].session_id = agent.session_id[2]
                    /\ chat.messages[k].content = agent.first_contents[n].text)
    /\ [][\A session_id \in SessionIds :
             (RowsOf(session_id)' # RowsOf(session_id)) =>
                 agent'.session_id = Some(session_id)]_vars
    /\ [][(view' # view /\ view'.status = 200) =>
             Len(view'.messages) = Len(RowsOf(view'.session_id))]_vars

C19_Witness ==
    /\ view.status = 200
    /\ view.session_id = "s2"
    /\ Len(view.messages) = 2
    /\ Len(RowsOf("s1")) > history_limit + 2
    /\ agent.pc = "returned"

\* how often an id is in the vector store
Occurrences(ids, id) == Cardinality({n \in 1..Len(ids) : ids[n] = id})

\* the committed rows of a document that have a vector
VectorRowsOf(document_id) ==
    {r \in db.text_chunks \cup db.regions :
        r.document_id = document_id /\ r.vector_id # NULL}

\* the n-th file of the run was indexed: run_pipeline went through all its
\* steps and returned the new document's id
Indexed(n) == cli.logged[n].kind = "returned" /\ cli.logged[n].step = "done"

\* C20: in a run-index run over a directory the pipeline is attempted for
\* every PDF found, whatever failed before; and each PDF that was indexed is
\* committed as if it had been indexed alone: its Document with all its
\* pages, and for each of its chunks and regions one vector under the row's
\* vector_id.
C20_BatchRunIsolatesFailures ==
    /\ cli.pc = "done" => Len(cli.logged) = Len(cli.pdfs)
    /\ \A n \in 1..Len(cli.logged) :
          /\ cli.logged[n].file = cli.pdfs[n]
          /\ Indexed(n) =>
                LET document_id == cli.logged[n].value
                IN /\ \E d \in db.documents :
                         /\ d.id = document_id
                         /\ d.file_hash = sha256(cli.pdfs[n])
                         /\ d.total_pages = NumPagesOf(cli.pdfs[n])
                   /\ Cardinality({p \in db.pages : p.document_id = document_id})
                         = NumPagesOf(cli.pdfs[n])
                   /\ \A r \in VectorRowsOf(document_id) :
                         Occurrences(vec_ids, r.vector_id) = 1

(***************************************************************************)
(* Order of the row writes and the vector-store writes of run_pipeline.    *)
(***************************************************************************)
\* the ids a step appends to the vector store
AddedVectorIds == {vec_ids'[n] : n \in (Len(vec_ids) + 1)..Len(vec_ids')}

\* C22: a content row exists before its vector: in every step of
\* run_pipeline that adds vectors to the store, each added TextChunk vector
\* is the vector_id of a TextChunk row the session already holds and each
\* added Region vector is the vector_id of a Region row it already holds; a
\* crop file is saved only for a Region row that has been written.
C22_RowBeforeVector ==
    [][/\ \A id \in AddedVectorIds :
             /\ id[1] = "chunk" => \E tc \in sess.text_chunks : tc.vector_id = id
             /\ id[1] = "region" => \E reg \in sess.regions : reg.vector_id = id
       /\ \A c \in storage' \ storage :
             c[1] = "crops" => \E reg \in sess'.regions :
                                  reg.document_id = c[2] /\ reg.id = c[3]]_vars

\* the OCR consumer thread has ended and every detection future has returned
ExtractionOver ==
    /\ cons.pc \in {"done", "dead"}
    /\ run.npages > 0
    /\ \A i \in 1..run.npages : run.detOut[i] \in {"ok", "raise"}

\* a step that chunks, calls an embedder, adds vectors or writes a TextChunk
\* or Region row
AfterBarrierWork ==
    \/ run' # NoRun /\ run'.chunks # run.chunks
    \/ vec_ids' # vec_ids
    \/ result' # result /\ result'.step \in {"embed_text", "embed_images"}
    \/ ~(sess'.text_chunks \subseteq sess.text_chunks)
    \/ ~(sess'.regions \subseteq sess.regions)

\* C23: synchronisation barrier: every step of run_pipeline that chunks,
\* calls an embedder, adds vectors or writes a TextChunk or Region row is
\* taken when the OCR consumer thread has terminated and every detection
\* worker has returned its result.
C23_ExtractionBarrier == [][AfterBarrierWork => ExtractionOver]_vars

\* two pages, text and regions found: the chunk rows are being written
C23_Witness ==
    /\ pc = "regions"
    /\ run.npages = 2
    /\ run.region_work # <<>>
    /\ \E tc \in sess.text_chunks : tc.document_id = run.document_id
    /\ ExtractionOver

(***************************************************************************)
(* What run_pipeline stores for a page, against the page's own raster.     *)
(***************************************************************************)
\* position of a page id among the pages of the running call (0: not there)
PageIndexOf(page_id) ==
    IF \E i \in 1..run.npages : run.page_ids[i] = page_id
    THEN CHOOSE i \in 1..run.npages : run.page_ids[i] = page_id
    ELSE 0

\* the text OCR gives for page i of the running call's file
OwnText(i) ==
    IF run.ocrOut[i] = "ok" THEN PageText(run.file, i) ELSE <<>>

\* the regions process_page gives for page i of the running call's file
OwnRegions(i) ==
    IF run.detOut[i] = "ok"
    THEN process_page(Raster(run.file, i), PageSize, PageSize,
                      DetectorAnswer(Raster(run.file, i)))
    ELSE <<>>

\* C25: results are joined by page: once run_pipeline is past the join, the
\* ocr_text of each Page row of the document is the OCR text of that page's
\* own raster, each TextChunk row of the document holds a chunk of the text
\* of its own page, and each Region row of a page has the label and box of a
\* region found on that page's own raster; before the PDF is saved every
\* region found on a page has its row.
C25_JoinedByPage ==
    pc \in {"embed_text", "insert_chunks", "regions", "embed_images", "save_pdf"} =>
      /\ \A p \in sess.pages :
            (p.document_id = run.document_id /\ p.ocr_text # NULL) =>
                /\ PageIndexOf(p.id) = p.page_num
                /\ run.ocrOut[p.page_num] # "none"
                /\ p.ocr_text = OwnText(p.page_num)
      /\ \A tc \in sess.text_chunks :
            tc.document_id = run.document_id =>
                LET i == PageIndexOf(tc.page_id)
                    cs == IF i = 0 THEN <<>>
                          ELSE chunk_text(OwnText(i), DEFAULT_CHUNK_SIZE,
                                          DEFAULT_CHUNK_OVERLAP)
                IN /\ tc.chunk_index + 1 \in 1..Len(cs)
                   /\ tc.text = cs[tc.chunk_index + 1]
      /\ \A reg \in sess.regions :
            reg.document_id = run.document_id =>
                LET i == PageIndexOf(reg.page_id)
                IN /\ i # 0
                   /\ \E j \in 1..Len(OwnRegions(i)) :
                         /\ reg.label = OwnRegions(i)[j][1]
                         /\ <<reg.box_y0, reg.box_x0, reg.box_y1, reg.box_x1>>
                              = OwnRegions(i)[j][2]
      /\ pc = "save_pdf" =>
            \A i \in 1..run.npages :
               Cardinality({reg \in sess.regions :
                               /\ reg.document_id = run.document_id
                               /\ reg.page_id = run.page_ids[i]})
                 = Len(OwnRegions(i))

\* two pages OCRed in one batch, both detections answered, rows written
C25_Witness ==
    /\ pc = "save_pdf"
    /\ run.npages = 2
    /\ settings.ocr_batch_size = 2
    /\ run.ocrOut = <<"ok", "ok">>
    /\ run.detOut = <<"ok", "ok">>
    /\ \E tc \in sess.text_chunks : tc.document_id = run.document_id
    /\ \A i \in 1..2 : \E reg \in sess.regions :
          reg.document_id = run.document_id /\ reg.page_id = run.page_ids[i]

\* the vector_id values of the committed TextChunk and Region rows
CommittedVectorIds ==
    {r.vector_id : r \in db.text_chunks \cup db.regions} \ {NULL}

\* C29: no orphan vectors: whenever no run_pipeline call is in progress,
\* every id in the vector store is the vector_id of a committed TextChunk or
\* Region row (so a call that failed and was rolled back has left no vector
\* behind), and the store holds no id twice.
C29_NoOrphanVectors ==
    pc = "idle" =>
      /\ \A n \in 1..Len(vec_ids) : vec_ids[n] \in CommittedVectorIds
      /\ \A m, n \in 1..Len(vec_ids) : m # n => vec_ids[m] # vec_ids[n]

(***************************************************************************)
(* The vector store: what it holds after add calls.                        *)
(***************************************************************************)
\* the rows of self._vectors
RowsOfStore(store) == IF store._vectors = NULL THEN <<>> ELSE store._vectors[2]

\* ids, metadata and vector rows have one length, and entry i of each
\* belongs to the item whose id is _ids[i]
StoreAligned(store) ==
    /\ Len(store._metadata) = Len(store._ids)
    /\ Len(RowsOfStore(store)) = Len(store._ids)
    /\ \A i \in 1..Len(store._ids) :
          /\ store._metadata[i] \in {MetaOf(store._ids[i]), EmptyDict}
          /\ RowsOfStore(store)[i] = VectorOf(store._ids[i], store.dimension)

\* the store holds the id with its own vector and its own metadata
Holds(store, id) ==
    \E i \in 1..Len(store._ids) :
       /\ store._ids[i] = id
       /\ i <= Len(store._metadata) /\ store._metadata[i] = MetaOf(id)
       /\ i <= Len(RowsOfStore(store))
       /\ RowsOfStore(store)[i] = VectorOf(id, store.dimension)

\* C21: the vector store is thread-safe: get_vector_store never creates a
\* second instance, and when no thread is inside a call, the shared store
\* holds every id of each thread's last add with its own vector and
\* metadata, and its ids, metadata and vector rows are aligned index by
\* index.
C21_ThreadSafeStore ==
    /\ Len(instances) <= 1
    /\ (\A t \in Threads : threads[t].pc = "idle") =>
          \A t \in Threads :
             threads[t].outcome = "returned" =>
                /\ StoreAligned(instances[threads[t].store])
                /\ \A j \in 1..Len(threads[t].args.ids) :
                      Holds(instances[threads[t].store], threads[t].args.ids[j])

\* C30: add is all-or-nothing: with add calls made one after another, a call
\* that raised has left ids, metadata and vectors of the store as they were
\* when it was entered, and whenever no call is in progress the three have
\* the same length and entry i of each belongs to the same item.
C30_AddAllOrNothing ==
    threads[1].pc = "idle" =>
      /\ \A n \in 1..Len(instances) : StoreAligned(instances[n])
      /\ threads[1].outcome = "raised" =>
            instances[threads[1].store] = threads[1].before

\* a call with two ids and one vector has raised on a store that holds items
C30_Witness ==
    /\ threads[1].pc = "idle"
    /\ threads[1].outcome = "raised"
    /\ Len(threads[1].args.ids) = 2
    /\ Len(threads[1].args.vectors) = 1
    /\ instances[threads[1].store]._ids # <<>>

(***************************************************************************)
(* search/engine.py: the queries a search call sends to the content store  *)
(* to resolve vector ids.                                                  *)
(***************************************************************************)
\* _resolve_vector_ids: no query for an empty list, else the query on
\* TextChunk and, if ids remain, the query on Region
ResolveQueries(store, vector_ids) ==
    IF vector_ids = <<>> THEN 0
    ELSE LET found == DOMAIN _resolve_vector_ids(
                         [store EXCEPT !.regions = {}], vector_ids)
         IN IF Range(vector_ids) \subseteq found THEN 1 ELSE 2

\* the loop of the hybrid branch, lines 164-167
RECURSIVE ResolveEachQueries(_, _, _)
ResolveEachQueries(id_to_info, store, vector_ids) ==
    IF vector_ids = <<>> THEN 0
    ELSE IF Head(vector_ids) \in DOMAIN id_to_info
    THEN ResolveEachQueries(id_to_info, store, Tail(vector_ids))
    ELSE ResolveQueries(store, <<Head(vector_ids)>>)
         + ResolveEachQueries(
              DictUpdate(id_to_info,
                         _resolve_vector_ids(store, <<Head(vector_ids)>>)),
              store, Tail(vector_ids))

\* the resolving queries of one semantic search
SemanticQueries(store, vec_ranked, top_k, embed_fails) ==
    LET vec_results == vector_search(vec_ranked, top_k, embed_fails)
    IN ResolveQueries(store, [n \in 1..Len(vec_results) |-> vec_results[n][1]])

\* the resolving queries of one hybrid search
HybridQueries(store, vec_ranked, query, top_k, embed_fails) ==
    LET kw_results == keyword_search(store, query, top_k)
        vec_results == vector_search(vec_ranked, top_k, embed_fails)
        with_id == SelectSeq(kw_results, LAMBDA r : r.vector_id # NULL)
        kw_list == [n \in 1..Len(with_id) |-> <<with_id[n].vector_id, with_id[n].score>>]
        vec_list == [n \in 1..Len(vec_results) |-> <<vec_results[n][1], vec_results[n][2]>>]
        top == Limit(rrf_merge(<<kw_list, vec_list>>, DEFAULT_K), top_k)
    IN IF kw_list = <<>> /\ vec_list = <<>> THEN 0
       ELSE ResolveEachQueries(KwInfo(kw_results), store,
                               [n \in 1..Len(top) |-> top[n][1]])

\* C26: resolution is batched: a semantic or hybrid search sends at most
\* two queries to the content store to resolve its vector ids (one over the
\* chunks, one over the regions), however many ids there are to resolve.
C26_ResolutionBatched ==
    srch.pc = "done" /\ Strip(srch.request.query) # <<>> =>
      /\ srch.request.mode = "semantic" =>
            SemanticQueries(srch.store, srch.vec_ranked, srch.request.top_k,
                            srch.embed_failed) <= 2
      /\ srch.request.mode = "hybrid" =>
            HybridQueries(srch.store, srch.vec_ranked, Strip(srch.request.query),
                          srch.request.top_k, srch.embed_failed) <= 2

(***************************************************************************)
(* chunk_text: the chunks against the windows of the stripped text.        *)
(***************************************************************************)
\* the start offsets S - O apart, below the length of the stripped text (a
\* text of at most S characters is a single window)
WindowStarts(t, S, O) ==
    IF Len(t) <= S THEN <<0>>
    ELSE [j \in 1..(((Len(t) - 1) \div (S - O)) + 1) |-> (j - 1) * (S - O)]

\* the chunks of a page are numbered 0, 1, 2, ... in text order, and no two
\* rows share (page_id, chunk_index)
NumberedInOrder(rows, pages, S, O) ==
    /\ \A pg \in 1..Len(pages) :
          LET mine == SelectSeq(rows, LAMBDA r : r[1] = pages[pg][1])
              cs == chunk_text(pages[pg][3], S, O)
          IN /\ Len(mine) = Len(cs)
             /\ \A n \in 1..Len(mine) : mine[n][3] = n - 1 /\ mine[n][4] = cs[n]
    /\ \A m, n \in 1..Len(rows) :
          m # n => <<rows[m][1], rows[m][3]>> # <<rows[n][1], rows[n][3]>>

ChunkedPages == << <<1, 1, chk.text>>, <<2, 1, Reverse(chk.text)>> >>

\* C27 as stated: no chunk for empty or whitespace-only text; otherwise
\* chunk k is the window of at most S characters of the stripped text that
\* starts at (k - 1) * (S - O), and the chunks together cover every position
\* of the stripped text; chunk_ocr_results numbers the chunks of each page
\* 0, 1, 2, ... in text order with (page_id, chunk_index) unique, and
\* chunking the same text again gives the same chunks.
C27_WindowsCoverText ==
    chk.pc = "done" =>
      LET t == Strip(chk.text)
          S == chk.chunk_size
          O == chk.overlap
      IN /\ t = <<>> => chk.chunks = <<>>
         /\ t # <<>> =>
               /\ \A k \in 1..Len(chk.chunks) :
                     /\ Len(chk.chunks[k]) \in 1..S
                     /\ chk.chunks[k] = Slice(t, (k - 1) * (S - O), (k - 1) * (S - O) + S)
               /\ \A p \in 1..Len(t) : \E k \in 1..Len(chk.chunks) :
                     /\ (k - 1) * (S - O) < p
                     /\ p <= (k - 1) * (S - O) + Len(chk.chunks[k])
         /\ NumberedInOrder(chk.rows, ChunkedPages, S, O)
         /\ chk.again = chk.chunks

\* C27, amended: no chunk for empty or whitespace-only text; otherwise the
\* chunks are, in order, the windows of at most S characters of the
\* stripped text that start S - O apart, those made of whitespace only being
\* left out, so that together they cover every non-whitespace position of
\* the stripped text; chunk_ocr_results numbers the chunks of each page 0,
\* 1, 2, ... in text order with (page_id, chunk_index) unique, and chunking
\* the same text again gives the same chunks.
C27_NonBlankWindowsCoverText ==
    chk.pc = "done" =>
      LET t == Strip(chk.text)
          S == chk.chunk_size
          O == chk.overlap
          starts == WindowStarts(t, S, O)
          windows == [j \in 1..Len(starts) |-> Slice(t, starts[j], starts[j] + S)]
      IN /\ t = <<>> => chk.chunks = <<>>
         /\ t # <<>> =>
               /\ chk.chunks = SelectSeq(windows, LAMBDA w : Strip(w) # <<>>)
               /\ \A k \in 1..Len(chk.chunks) : Len(chk.chunks[k]) \in 1..S
               /\ \A p \in 1..Len(t) :
                     ~IsSpace(t[p]) =>
                        \E j \in 1..Len(starts) :
                           /\ windows[j] \in Range(chk.chunks)
                           /\ starts[j] < p /\ p <= starts[j] + Len(windows[j])
         /\ NumberedInOrder(chk.rows, ChunkedPages, S, O)
         /\ chk.again = chk.chunks

\* a text with a blank window in the middle, chunked with overlap
C27_Witness ==
    /\ chk.pc = "done"
    /\ chk.text = <<" ", "a", " ", " ", "b">>
    /\ chk.chunk_size = 2
    /\ chk.overlap = 1
    /\ chk.chunks = << <<"a", " ">>, <<" ", "b">>, <<"b">> >>
    /\ Len(chk.rows) = 6

(***************************************************************************)
(* The OCR stage: batches, queue, detection pool, completion.              *)
(***************************************************************************)
\* a step of the consumer thread
ConsumerStep == cons.pc = "for" /\ cons' # cons

\* C24: bounded batching: every call of batch_ocr carries at least 1 and at
\* most ocr_batch_size pages; the consumer never holds a full batch (it
\* sends the batch in the step that fills it), and a queue read that times
\* out on the empty queue sends the pages collected so far; the queue never
\* holds more than ocr_max_queue_size items; at most 5 detection calls are
\* in flight.
C24_BoundedBatching ==
    /\ [](/\ \A n \in 1..Len(run.batches) :
                run.batches[n] \in 1..settings.ocr_batch_size
          /\ Len(cons.batch) < settings.ocr_batch_size
          /\ Len(run.queue) <= settings.ocr_max_queue_size
          /\ Cardinality(InFlight) <= 5)
    /\ [][(ConsumerStep /\ run.queue = <<>> /\ cons.batch # <<>>) =>
              run'.batches = Append(run.batches, Len(cons.batch))]_vars

\* with batches of two, a queue read timed out after the first page, which
\* was sent alone, and the second page was sent when the sentinel came
C24_Witness ==
    /\ settings.ocr_batch_size = 2
    /\ run.npages = 2
    /\ run.batches = <<1, 1>>
    /\ cons.pc = "done"

\* five detection calls are in flight and a sixth one is waiting
C24_WitnessPool ==
    /\ Cardinality(InFlight) = 5
    /\ \E i \in 1..pool.total_pages : pool.futures[i] = "pending"

\* C28: the OCR stage always completes: the consumer thread never dies (it
\* ends only by consuming the sentinel), and whenever the producer feeds the
\* queue, run_pipeline eventually returns from the join on the consumer.
C28_OcrStageCompletes ==
    /\ [](cons.pc # "dead")
    /\ [](cons.pc = "done" => cons.item = NoneItem)
    /\ (pc = "feed") ~> (pc = "embed_text")

====
